---- MODULE Spec2Model ----
(***************************************************************************)
(* Molecular structure store (backend/molecular_database.py) and           *)
(* sub-atomic design optimizer (backend/sub_atomic_designer.py).           *)
(*                                                                         *)
(* Numbers.  Coordinates, thresholds and template offsets are integers     *)
(* counting tenths of an angstrom (1.4 A is 14).  A stored bond length is  *)
(* kept as the squared distance (hundredths of a square angstrom), so that *)
(* "distance <= threshold" is "distSq <= threshold^2".  Property values    *)
(* and fitness scores are exact fractions carried as integer numerators    *)
(* over a stated denominator; floating point rounding is not modelled.     *)
(*                                                                         *)
(* Text.  A molecule string "C 0 0 0; H 1.0 0 0" is a sequence of groups,  *)
(* a group is a sequence of tokens, a token is a symbol or a number.  A    *)
(* file is a sequence of lines and a line is a sequence of tokens.         *)
(***************************************************************************)
EXTENDS Integers, Sequences, FiniteSets, TLC

VARIABLES
    db,     \* the committed tables of the sqlite database file
    now,    \* the clock read by CURRENT_TIMESTAMP and datetime.now()
    w,      \* the connection of an add_molecule call in progress
    r,      \* the connection of a get_molecule call in progress
    last,   \* the most recent completed store operation and its outcome
    d,      \* the locals of a design_material call in progress
    f,      \* a molecule file and what has been done with it
    e       \* a call of a routine on given arguments, and what it returned

vars == <<db, now, w, r, last, d, f, e>>

----------------------------------------------------------------------------
(* Bounds of the model *)

MaxMolecules == 2       \* rows of the molecules table
MaxSimulations == 1     \* rows of the simulation_results table
MaxIterations == 3      \* largest max_iterations of a design run
MaxBaseAtoms == 3       \* atoms of a generated carbon/hydrogen base
MaxLines == 4           \* lines of a generated coordinate-list file
MaxEstimateAtoms == 3   \* atoms of a generated structure handed to the estimator
MaxLibraryBases == 2    \* base structures handed to create_molecular_library
MaxLibraryTargets == 2
MaxBondAtoms == 3       \* atoms of a structure whose bonds are inferred
MaxInferences == 2      \* inferences over one atom list
MaxCachedRuns == 2      \* rows of simulation_results in SpecCache
MaxClock == 1           \* seconds the clock of SpecCache advances  \* targets handed to create_molecular_library

----------------------------------------------------------------------------
(* Text values *)

\* a word; an integer literal "3"; a decimal literal "1.0" worth n tenths
Sym(s) == [kind |-> "sym", s |-> s, n |-> 0]
Int10(k) == [kind |-> "int", s |-> "", n |-> k]
Num(n) == [kind |-> "dec", s |-> "", n |-> n]
Group(s, x, y, z) == <<Sym(s), Num(x), Num(y), Num(z)>>

\* float(token) succeeds on both literals; int(token) on integer literals
IsNumber(token) == token.kind \in {"int", "dec"}
FloatOf(token) == IF token.kind = "int" THEN 10 * token.n ELSE token.n

\* a cap that is not applied: the value itself
Uncapped(a, b) == b

Min(a, b) == IF a <= b THEN a ELSE b
Max(a, b) == IF a >= b THEN a ELSE b

\* dict(zip(columns, row)): zip stops at the shorter of the two
Zip(columns, row) ==
    LET n == Min(Len(columns), Len(row))
    IN  [c \in {columns[i] : i \in 1..n} |->
            row[CHOOSE i \in 1..n : columns[i] = c]]

----------------------------------------------------------------------------
(* simulation_core: the canonical form (not among the source files)        *)

WellFormedGroup(g) ==
    /\ Len(g) = 4
    /\ g[1].kind = "sym"
    /\ IsNumber(g[2]) /\ IsNumber(g[3]) /\ IsNumber(g[4])

\* parse(text, raw): semicolon-separated "symbol x y z" groups
parse_molecule_string(molecule_string) ==
    IF \A i \in 1..Len(molecule_string) : WellFormedGroup(molecule_string[i])
    THEN [ok |-> TRUE,
          atoms |-> [i \in 1..Len(molecule_string) |->
                        [symbol |-> molecule_string[i][1].s,
                         x |-> FloatOf(molecule_string[i][2]),
                         y |-> FloatOf(molecule_string[i][3]),
                         z |-> FloatOf(molecule_string[i][4])]]]
    ELSE [ok |-> FALSE, atoms |-> <<>>]

\* serialize(atom list)
molecule_to_string(atom_data) ==
    [i \in 1..Len(atom_data) |->
        Group(atom_data[i].symbol, atom_data[i].x, atom_data[i].y, atom_data[i].z)]

\* derived_atom_count of the data model
calculate_molecular_descriptors(atom_data) ==
    [num_atoms |-> Len(atom_data)]

----------------------------------------------------------------------------
(* Bond inference: MolecularDatabase._calculate_and_store_bonds            *)

\* the element symbols of the model, in the order Python's sorted() gives
ElementOrder ==
    <<"Br", "C", "Cd", "Cl", "F", "H", "Hg", "I", "N", "O", "Pb", "Si">>

Rank(s) == CHOOSE i \in 1..Len(ElementOrder) : ElementOrder[i] = s

\* tuple(sorted([a, b]))
SortedPair(a, b) == IF Rank(a) <= Rank(b) THEN <<a, b>> ELSE <<b, a>>

bond_thresholds ==
    (<<"H", "H">> :> 10) @@ (<<"H", "C">> :> 12) @@ (<<"H", "N">> :> 12) @@
    (<<"H", "O">> :> 12) @@ (<<"C", "C">> :> 18) @@ (<<"C", "N">> :> 18) @@
    (<<"C", "O">> :> 18) @@ (<<"N", "N">> :> 16) @@ (<<"N", "O">> :> 16) @@
    (<<"O", "O">> :> 16)

DefaultThreshold == 20

\* bond_thresholds.get(symbols, 2.0)
Threshold(atom1, atom2) ==
    LET symbols == SortedPair(atom1.symbol, atom2.symbol)
    IN  IF symbols \in DOMAIN bond_thresholds
        THEN bond_thresholds[symbols] ELSE DefaultThreshold

DistSq(atom1, atom2) ==
    (atom1.x - atom2.x) * (atom1.x - atom2.x) +
    (atom1.y - atom2.y) * (atom1.y - atom2.y) +
    (atom1.z - atom2.z) * (atom1.z - atom2.z)

\* the if / elif chain that classifies a bonded pair
BondType(distSq, threshold) ==
    IF 100 * distSq < 64 * threshold * threshold THEN "double"
    ELSE IF 100 * distSq < 49 * threshold * threshold THEN "triple"
    ELSE "single"

BondOrder(bond_type) ==
    IF bond_type = "double" THEN 2 ELSE IF bond_type = "triple" THEN 3 ELSE 1

\* an inner loop that starts at the atom itself
FirstPartnerSelf(i) == i

\* the inner loop starts at "range(i + 1, len(atom_data))"
FirstPartner(i) == i + 1

\* the two nested loops over i < j (0-based); rows are appended in loop order
RECURSIVE BondScan(_, _, _, _, _, _)
BondScan(atom_data, molecule_id, firstRowId, i, j, rows) ==
    IF i >= Len(atom_data) THEN rows
    ELSE IF j >= Len(atom_data)
    THEN BondScan(atom_data, molecule_id, firstRowId, i + 1,
                  FirstPartner(i + 1), rows)
    ELSE LET atom1 == atom_data[i + 1]
             atom2 == atom_data[j + 1]
             distSq == DistSq(atom1, atom2)
             threshold == Threshold(atom1, atom2)
             bond_type == BondType(distSq, threshold)
             row == <<firstRowId + Len(rows), molecule_id, i, j,
                      bond_type, BondOrder(bond_type), distSq>>
         IN  BondScan(atom_data, molecule_id, firstRowId, i, j + 1,
                      IF distSq <= threshold * threshold
                      THEN Append(rows, row) ELSE rows)

\* bond inference that runs only while the bonds table is empty
calculate_bonds_once(molecule_id, atom_data, firstRowId) ==
    IF firstRowId > 1 THEN <<>>
    ELSE BondScan(atom_data, molecule_id, firstRowId, 0, FirstPartner(0), <<>>)

calculate_and_store_bonds(molecule_id, atom_data, firstRowId) ==
    BondScan(atom_data, molecule_id, firstRowId, 0, FirstPartner(0), <<>>)

----------------------------------------------------------------------------
(* Schema: MolecularDatabase.init_database                                 *)

molecules_columns ==
    <<"id", "name", "formula", "molecule_string", "file_hash", "file_format",
      "source_file_name", "molecular_weight", "num_atoms", "created_at",
      "updated_at", "category", "description", "metadata">>

atomic_properties_columns ==
    <<"id", "molecule_id", "atom_index", "element_symbol", "x_coord",
      "y_coord", "z_coord", "partial_charge", "bond_order_sum",
      "hybridization", "formal_charge", "is_aromatic">>

molecular_bonds_columns ==
    <<"id", "molecule_id", "atom1_index", "atom2_index", "bond_type",
      "bond_order", "bond_length">>

simulation_results_columns ==
    <<"id", "molecule_id", "method", "energy", "dipole_moment_x",
      "dipole_moment_y", "dipole_moment_z", "vibrational_frequencies",
      "agricultural_activity", "computation_time_ms", "created_at">>

material_properties_columns ==
    <<"id", "molecule_id", "tensile_strength", "flexibility_score",
      "biodegradability_score", "uv_resistance", "water_resistance",
      "thermal_stability", "cost_estimate", "environmental_impact",
      "rwanda_suitability", "applications">>

\* the tables right after init_database on a new file
EmptyDatabase ==
    [molecules |-> <<>>, atomic_properties |-> <<>>, molecular_bonds |-> <<>>,
     simulation_results |-> <<>>, material_properties |-> <<>>]

\* the rows a connection has inserted and not yet committed
EmptyTxn ==
    [molecules |-> <<>>, atomic_properties |-> <<>>, molecular_bonds |-> <<>>]

\* keyword arguments of add_molecule; a missing file_hash is <<>>, a hash
\* is <<content>> (md5 taken as injective)
NoKwargs ==
    [file_hash |-> <<>>, file_format |-> "NULL", source_file_name |-> "NULL",
     molecular_weight |-> 0, num_atoms |-> 0]

\* rows of a table that belong to one molecule (column 2 is molecule_id)
RowsOf(table, molecule_id) ==
    SelectSeq(table, LAMBDA row : row[2] = molecule_id)

----------------------------------------------------------------------------
(* Transactions of a sqlite3 connection                                    *)

\* conn.commit(): the pending rows become visible, all at once
Commit(tables, txn) ==
    [tables EXCEPT !.molecules = @ \o txn.molecules,
                   !.atomic_properties = @ \o txn.atomic_properties,
                   !.molecular_bonds = @ \o txn.molecular_bonds]

\* a commit placed right after the INSERT INTO molecules: the molecule row
\* survives the rollback of what follows
RollbackAfterEarlyCommit(tables, txn) ==
    [tables EXCEPT !.molecules = @ \o txn.molecules]

\* conn.rollback() in the except branch of add_molecule: pending rows vanish
Rollback(tables, txn) == tables

\* a reader that shares the writer's connection reads the pending rows too
VisibleUncommitted(tables, txn) == Commit(tables, txn)

\* what a SELECT on another connection reads while txn is pending
Visible(tables, txn) == tables

----------------------------------------------------------------------------
(* MolecularDatabase.add_molecule                                          *)

\* a store without the UNIQUE constraint on file_hash
FileHashNeverTaken(tables, file_hash) == FALSE

\* UNIQUE constraint on molecules.file_hash (NULLs never collide)
FileHashTaken(tables, file_hash) ==
    /\ file_hash # <<>>
    /\ \E k \in 1..Len(tables.molecules) : tables.molecules[k][5] = file_hash

\* an id taken from the rows present instead of the row inserted
LastPresentMoleculeId(tables, txn) ==
    Max(Len(tables.molecules) + Len(txn.molecules), 1)

\* cursor.lastrowid of the INSERT INTO molecules (AUTOINCREMENT, no deletes)
NextMoleculeId(tables, txn) == Len(tables.molecules) + Len(txn.molecules) + 1

InsertMolecule(tables, txn, name, molecule_string, category, description, kwargs, descriptors, ts) ==
    [txn EXCEPT !.molecules = Append(@,
        <<NextMoleculeId(tables, txn), name, "NULL", molecule_string,
          kwargs.file_hash, kwargs.file_format, kwargs.source_file_name,
          0, descriptors.num_atoms, ts, ts, category, description, kwargs>>)]

\* one pass of the loop "for i, atom in enumerate(atom_data)"; i is 0-based
InsertAtom(tables, txn, molecule_id, i, atom) ==
    [txn EXCEPT !.atomic_properties = Append(@,
        <<Len(tables.atomic_properties) + Len(txn.atomic_properties) + 1,
          molecule_id, i, atom.symbol, atom.x, atom.y, atom.z,
          0, 0, "NULL", 0, 0>>)]

RECURSIVE InsertAtoms(_, _, _, _, _)
InsertAtoms(tables, txn, molecule_id, atom_data, i) ==
    IF i >= Len(atom_data) THEN txn
    ELSE InsertAtoms(tables,
                     InsertAtom(tables, txn, molecule_id, i, atom_data[i + 1]),
                     molecule_id, atom_data, i + 1)

InsertBonds(tables, txn, molecule_id, atom_data) ==
    [txn EXCEPT !.molecular_bonds = @ \o
        calculate_and_store_bonds(molecule_id, atom_data,
            Len(tables.molecular_bonds) + Len(txn.molecular_bonds) + 1)]

\* a whole call on its own connection; ok = FALSE is the re-raised exception
add_molecule(tables, name, molecule_string, category, description, kwargs, ts) ==
    LET parsed == parse_molecule_string(molecule_string)
        atom_data == parsed.atoms
        descriptors == calculate_molecular_descriptors(atom_data)
        molecule_id == NextMoleculeId(tables, EmptyTxn)
        txn1 == InsertMolecule(tables, EmptyTxn, name, molecule_string,
                               category, description, kwargs, descriptors, ts)
        txn2 == InsertAtoms(tables, txn1, molecule_id, atom_data, 0)
        txn3 == InsertBonds(tables, txn2, molecule_id, atom_data)
    IN  IF ~parsed.ok
        THEN [ok |-> FALSE, error |-> "ParseError", molecule_id |-> 0,
              db |-> Rollback(tables, EmptyTxn)]
        ELSE IF FileHashTaken(tables, kwargs.file_hash)
        THEN [ok |-> FALSE, error |-> "IntegrityError", molecule_id |-> 0,
              db |-> Rollback(tables, EmptyTxn)]
        ELSE [ok |-> TRUE, error |-> "", molecule_id |-> molecule_id,
              db |-> Commit(tables, txn3)]

----------------------------------------------------------------------------
(* Structure codec: _parse_xyz, _parse_mol_sdf, _parse_pdb,                *)
(* _parse_molecule_file.  ok = FALSE is the None a parser returns.         *)

NoneResult == [ok |-> FALSE, molecule_string |-> <<>>]
Parsed(molecule_string) == [ok |-> TRUE, molecule_string |-> molecule_string]

RECURSIVE DropLeadingBlank(_)
DropLeadingBlank(lines) ==
    IF lines # <<>> /\ Head(lines) = <<>> THEN DropLeadingBlank(Tail(lines))
    ELSE lines

RECURSIVE DropTrailingBlank(_)
DropTrailingBlank(lines) ==
    IF lines # <<>> /\ lines[Len(lines)] = <<>>
    THEN DropTrailingBlank(SubSeq(lines, 1, Len(lines) - 1))
    ELSE lines

\* content.strip().split('\n'): the empty text splits into one empty line
Lines(content) ==
    LET stripped == DropTrailingBlank(DropLeadingBlank(content))
    IN  IF stripped = <<>> THEN <<<<>>>> ELSE stripped

\* int(line) succeeds when the line is one integer literal
IsInt(line) == Len(line) = 1 /\ line[1].kind = "int"

\* lines[lo:hi] for lo >= 0, with Python's clipping and negative hi
PySlice(lines, lo, hi) ==
    LET stop == IF hi < 0 THEN Max(Len(lines) + hi, 0) ELSE Min(hi, Len(lines))
    IN  IF lo < stop THEN SubSeq(lines, lo + 1, stop) ELSE <<>>

\* "symbol x y z" lines of at least four parts; shorter lines are passed over
XyzAtoms(atom_lines) ==
    LET long == SelectSeq(atom_lines, LAMBDA parts : Len(parts) >= 4)
    IN  [k \in 1..Len(long) |->
            <<long[k][1], Num(FloatOf(long[k][2])), Num(FloatOf(long[k][3])),
              Num(FloatOf(long[k][4]))>>]

parse_xyz(content) ==
    LET lines == Lines(content)
        num_atoms == lines[1][1].n
        atom_lines == PySlice(lines, 2, 2 + num_atoms)
    IN  IF Len(lines) < 2 THEN NoneResult
        ELSE IF ~IsInt(lines[1]) THEN NoneResult            \* ValueError
        ELSE IF \E k \in 1..Len(atom_lines) :
                    /\ Len(atom_lines[k]) >= 4
                    /\ \E c \in 2..4 : ~IsNumber(atom_lines[k][c])
        THEN NoneResult                                     \* ValueError
        ELSE Parsed(XyzAtoms(atom_lines))

\* "x y z symbol" lines of at least four parts
MolAtoms(atom_lines) ==
    LET long == SelectSeq(atom_lines, LAMBDA parts : Len(parts) >= 4)
    IN  [k \in 1..Len(long) |->
            <<long[k][4], Num(FloatOf(long[k][1])), Num(FloatOf(long[k][2])),
              Num(FloatOf(long[k][3]))>>]

\* counts_line[:3] is taken to be the first field of the counts line
parse_mol_sdf(content) ==
    LET lines == Lines(content)
        counts_line == lines[4]
        num_atoms == counts_line[1].n
        \* range(4, 4 + num_atoms) with "if i >= len(lines): break"
        atom_lines == PySlice(lines, 4, Max(4 + num_atoms, 4))
    IN  IF Len(lines) < 4 THEN NoneResult
        ELSE IF counts_line = <<>> \/ counts_line[1].kind # "int"
        THEN NoneResult                                     \* ValueError
        ELSE IF \E k \in 1..Len(atom_lines) :
                    /\ Len(atom_lines[k]) >= 4
                    /\ \E c \in 1..3 : ~IsNumber(atom_lines[k][c])
        THEN NoneResult                                     \* ValueError
        ELSE Parsed(MolAtoms(atom_lines))

(* A fixed-column line is the sequence of its column ranges:               *)
(* <<record name [0:6], atom name [12:16], x [30:38], y [38:46],           *)
(*   z [46:54], element [76:78]>>; a range that is blank or beyond the end *)
(* of the line is Sym("").                                                 *)
Blank == Sym("")
Field(line, k) == IF k <= Len(line) THEN line[k] ELSE Blank

\* line[12:16].strip()[0]
FirstLetter(name) == IF name.s = "CA" THEN Sym("C") ELSE name

\* one ATOM/HETATM record: a group, or <<>> when the try block raises
PdbAtom(line) ==
    LET element == Field(line, 6)
        name == Field(line, 2)
        symbol == IF element # Blank THEN element ELSE FirstLetter(name)
    IN  IF element = Blank /\ name = Blank THEN <<>>              \* IndexError
        ELSE IF \E c \in 3..5 : ~IsNumber(Field(line, c)) THEN <<>> \* ValueError
        ELSE <<symbol, Num(FloatOf(Field(line, 3))),
               Num(FloatOf(Field(line, 4))), Num(FloatOf(Field(line, 5)))>>

parse_pdb(content) ==
    LET lines == Lines(content)
        records == SelectSeq(lines, LAMBDA line :
                       /\ line # <<>>
                       /\ line[1] \in {Sym("ATOM"), Sym("HETATM")}
                       /\ PdbAtom(line) # <<>>)
        atoms == [k \in 1..Len(records) |-> PdbAtom(records[k])]
    IN  IF atoms # <<>> THEN Parsed(atoms) ELSE NoneResult

\* content.strip() of a text of semicolon-separated groups
RawStrip(content) == IF content = <<<<>>>> THEN <<>> ELSE content

parse_molecule_file(content, file_format) ==
    IF file_format = ".xyz" THEN parse_xyz(content)
    ELSE IF file_format \in {".mol", ".sdf"} THEN parse_mol_sdf(content)
    ELSE IF file_format = ".pdb" THEN parse_pdb(content)
    ELSE Parsed(RawStrip(content))

----------------------------------------------------------------------------
(* MolecularDatabase.add_molecule_from_file                                *)

\* "if molecule_string is None": the empty string passes
IsNone(parsed) == ~parsed.ok

\* "if not molecule_string": None and the empty string are both refused
CouldNotParse(parsed) == ~parsed.ok \/ parsed.molecule_string = <<>>

add_molecule_from_file(tables, content, file_format, name, category, description, ts) ==
    LET file_hash == <<content>>
        parsed == parse_molecule_file(content, file_format)
        molecule_string == parsed.molecule_string
        atom_data == parse_molecule_string(molecule_string)
        descriptors == calculate_molecular_descriptors(atom_data.atoms)
        Raised(error) == [ok |-> FALSE, error |-> error, molecule_id |-> 0,
                          db |-> tables]
    IN  IF CouldNotParse(parsed) THEN Raised("ValueError")
        ELSE IF ~atom_data.ok THEN Raised("ParseError")
        ELSE add_molecule(tables, name, molecule_string, category, description,
                          [file_hash |-> file_hash, file_format |-> file_format,
                           source_file_name |-> "upload" \o file_format,
                           molecular_weight |-> 0,
                           num_atoms |-> descriptors.num_atoms],
                          ts)

----------------------------------------------------------------------------
(* MolecularDatabase.get_molecule                                          *)

\* the same query without its WHERE clause, then fetchone()
SelectFirstMolecule(view, molecule_id) ==
    IF view.molecules = <<>> THEN <<>> ELSE <<view.molecules[1]>>

\* SELECT * FROM molecules WHERE id = ?  (zero or one row)
SelectMolecule(view, molecule_id) ==
    SelectSeq(view.molecules, LAMBDA row : row[1] = molecule_id)

RECURSIVE InsertByAtomIndex(_, _)
InsertByAtomIndex(sorted, row) ==
    IF sorted = <<>> THEN <<row>>
    ELSE IF row[3] < Head(sorted)[3] THEN <<row>> \o sorted
    ELSE <<Head(sorted)>> \o InsertByAtomIndex(Tail(sorted), row)

RECURSIVE OrderByAtomIndex(_)
OrderByAtomIndex(rows) ==
    IF rows = <<>> THEN <<>>
    ELSE InsertByAtomIndex(OrderByAtomIndex(SubSeq(rows, 1, Len(rows) - 1)),
                           rows[Len(rows)])

\* SELECT * FROM atomic_properties WHERE molecule_id = ? ORDER BY atom_index
SelectAtoms(view, molecule_id) ==
    OrderByAtomIndex(RowsOf(view.atomic_properties, molecule_id))

\* SELECT * FROM molecular_bonds WHERE molecule_id = ?
SelectBonds(view, molecule_id) == RowsOf(view.molecular_bonds, molecule_id)

\* SELECT * FROM simulation_results WHERE molecule_id = ?
\* ORDER BY created_at DESC LIMIT 1: the rows the query may return, as
\* sequences of zero or one row (rows of equal created_at are not ordered)
SelectLatestSimulation(view, molecule_id) ==
    LET rows == RowsOf(view.simulation_results, molecule_id)
        idx == 1..Len(rows)
    IN  IF rows = <<>> THEN {<<>>}
        ELSE {<<rows[k]>> : k \in {k \in idx :
                  \A m \in idx : rows[m][11] <= rows[k][11]}}

\* SELECT * FROM material_properties WHERE molecule_id = ?  then fetchone()
SelectMaterial(view, molecule_id) ==
    LET rows == RowsOf(view.material_properties, molecule_id)
    IN  IF rows = <<>> THEN <<>> ELSE <<rows[1]>>

\* cursor.description when the response is structured: that of the last
\* statement the cursor executed, the SELECT on material_properties
LastDescription == material_properties_columns

NotFoundResult ==
    [found |-> FALSE, molecule |-> <<>>, atomic_properties |-> <<>>,
     bonds |-> <<>>, latest_simulation |-> <<>>, material_properties |-> <<>>]

\* "Structure the response": every child row is zipped with description
Structure(molecule_row, columns, description, atomic_data, bonds_data, simulation_data, material_data) ==
    [found |-> TRUE,
     molecule |-> Zip(columns, molecule_row),
     atomic_properties |->
        [k \in 1..Len(atomic_data) |-> Zip(description, atomic_data[k])],
     bonds |-> [k \in 1..Len(bonds_data) |-> Zip(description, bonds_data[k])],
     latest_simulation |->
        [k \in 1..Len(simulation_data) |-> Zip(description, simulation_data[k])],
     material_properties |->
        [k \in 1..Len(material_data) |-> Zip(description, material_data[k])]]

\* a whole call reading one snapshot; simulation_data is the row the
\* latest-simulation query returned
get_molecule(view, molecule_id, simulation_data) ==
    LET found == SelectMolecule(view, molecule_id)
    IN  IF found = <<>> THEN NotFoundResult
        ELSE Structure(found[1], molecules_columns, LastDescription,
                       SelectAtoms(view, molecule_id),
                       SelectBonds(view, molecule_id),
                       simulation_data,
                       SelectMaterial(view, molecule_id))

----------------------------------------------------------------------------
(* SubAtomicDesigner: property estimation and fitness                      *)
(*                                                                         *)
(* An analysis of n atoms is [n, props]: property p has the value          *)
(* props[p] / (1000 * n).  A target holds tenths (0.9 is 9).  A fitness    *)
(* is [num, n] and has the value num / (84 * 1000 * n), 84 being ten times *)
(* the sum of the weights.                                                 *)

\* field order of the MaterialTarget dataclass, the order of target.__dict__
PropertyNames ==
    <<"strength", "flexibility", "biodegradability", "uv_resistance",
      "water_resistance", "cost_effectiveness", "environmental_safety",
      "agricultural_suitability">>

Properties == {PropertyNames[k] : k \in 1..Len(PropertyNames)}

\* MaterialTarget(): the dataclass defaults
DefaultTarget ==
    [strength |-> 5, flexibility |-> 5, biodegradability |-> 5,
     uv_resistance |-> 5, water_resistance |-> 5, cost_effectiveness |-> 5,
     environmental_safety |-> 8, agricultural_suitability |-> 7]

Abs(a) == IF a < 0 THEN -a ELSE a

Count(atom_data, symbols) ==
    Cardinality({k \in 1..Len(atom_data) : atom_data[k].symbol \in symbols})

toxic_elements == {"Cl", "Br", "I", "Pb", "Hg", "Cd"}

\* an empty-list guard that leaves the two floored properties at their floor
FlooredDefault ==
    [n |-> 1, props |-> [p \in Properties |->
        IF p \in {"cost_effectiveness", "environmental_safety"} THEN 100 ELSE 500]]

\* the except branch: every property 0.5
DefaultAnalysis == [n |-> 1, props |-> [p \in Properties |-> 500]]

analyze_molecule_properties(molecule_string) ==
    LET parsed == parse_molecule_string(molecule_string)
        atom_data == parsed.atoms
        total_atoms == Len(atom_data)
        one == 1000 * total_atoms
        aromatic_atoms == Count(atom_data, {"C"})
        oxygen == Count(atom_data, {"O"})
        biodegradable_atoms == Count(atom_data, {"O", "N"})
        hydrophobic_atoms == Count(atom_data, {"C", "Si", "F"})
        complexity == Cardinality({atom_data[k].symbol : k \in 1..total_atoms})
        toxic_count == Count(atom_data, toxic_elements)
        biodegradability == Min(one, 3000 * biodegradable_atoms)
        cost_effectiveness ==
            Max(100 * total_atoms, one - 100 * complexity * total_atoms)
        environmental_safety == Max(100 * total_atoms, one - 5000 * toxic_count)
    IN  IF ~parsed.ok \/ total_atoms = 0
        THEN DefaultAnalysis   \* ParseError, or ZeroDivisionError at line 225
        ELSE [n |-> total_atoms,
              props |->
                [strength |-> Min(one, 2000 * aromatic_atoms + 300 * total_atoms),
                 flexibility |->
                    Min(one, 35 * Min(20, total_atoms) * total_atoms + 500 * oxygen),
                 biodegradability |-> biodegradability,
                 uv_resistance |->
                    Min(one, 1500 * aromatic_atoms + 200 * total_atoms),
                 water_resistance |-> Min(one, 1200 * hydrophobic_atoms),
                 cost_effectiveness |-> cost_effectiveness,
                 environmental_safety |-> environmental_safety,
                 agricultural_suitability |->
                    (4 * biodegradability + 4 * environmental_safety
                       + 2 * cost_effectiveness) \div 10]]

\* ten times the weights table
weights ==
    [strength |-> 10, flexibility |-> 10, biodegradability |-> 12,
     uv_resistance |-> 8, water_resistance |-> 8, cost_effectiveness |-> 11,
     environmental_safety |-> 13, agricultural_suitability |-> 12]

\* target value of p on the scale of the analysis
TargetValue(target, p, analysis) == target[p] * 100 * analysis.n

RECURSIVE TotalScore(_, _, _)
TotalScore(current_properties, target, k) ==
    IF k = 0 THEN 0
    ELSE LET prop == PropertyNames[k]
             score == 1000 * current_properties.n
                        - Abs(TargetValue(target, prop, current_properties)
                                - current_properties.props[prop])
         IN  score * weights[prop] + TotalScore(current_properties, target, k - 1)

calculate_fitness(current_properties, target) ==
    [num |-> TotalScore(current_properties, target, Len(PropertyNames)),
     n |-> current_properties.n]

ZeroScore == [num |-> 0, n |-> 1]

\* a > b on fitness values
ScoreGreater(a, b) == a.num * b.n > b.num * a.n

----------------------------------------------------------------------------
(* SubAtomicDesigner: modification generators                              *)
(*                                                                         *)
(* improvement is on the scale of the analysis (0.2 is 200 * n);           *)
(* expected_improvement carries ten times that scale.                      *)

carbon_atoms(atom_data) ==
    SelectSeq([k \in 1..Len(atom_data) |-> k - 1],
              LAMBDA i : atom_data[i + 1].symbol = "C")

Modification(type, target_atom, expected_improvement) ==
    [type |-> type, target_atom |-> target_atom,
     expected_improvement |-> expected_improvement]

generate_strength_modifications(atom_data, improvement, n) ==
    (IF carbon_atoms(atom_data) # <<>> /\ improvement > 200 * n
     THEN <<Modification("add_aromatic_ring", carbon_atoms(atom_data)[1],
                         improvement * 6)>>
     ELSE <<>>)
    \o
    (IF Len(atom_data) > 3 /\ improvement > 100 * n
     THEN <<Modification("add_amide_group", Len(atom_data) \div 2,
                         improvement * 4)>>
     ELSE <<>>)

generate_flexibility_modifications(atom_data, improvement, n) ==
    (IF improvement > 150 * n
     THEN <<Modification("add_ester_linkage", Len(atom_data) \div 3,
                         improvement * 5)>>
     ELSE <<>>)
    \o
    (IF improvement > 100 * n
     THEN <<Modification("extend_chain", -1, improvement * 3)>>
     ELSE <<>>)

\* a generator whose gap thresholds are never met
generate_biodegradability_nothing(atom_data, improvement, n) == <<>>

generate_biodegradability_modifications(atom_data, improvement, n) ==
    (IF carbon_atoms(atom_data) # <<>> /\ improvement > 100 * n
     THEN <<Modification("add_hydroxyl_group",
                carbon_atoms(atom_data)[Len(carbon_atoms(atom_data)) \div 2 + 1],
                improvement * 7)>>
     ELSE <<>>)
    \o
    (IF improvement > 200 * n
     THEN <<Modification("add_carboxyl_group", Len(atom_data) - 1,
                         improvement * 8)>>
     ELSE <<>>)

generate_uv_resistance_modifications(atom_data, improvement, n) ==
    IF improvement > 150 * n
    THEN <<Modification("add_uv_stabilizer", 0, improvement * 6)>>
    ELSE <<>>

generate_water_resistance_modifications(atom_data, improvement, n) ==
    IF improvement > 100 * n
    THEN <<Modification("add_hydrophobic_group", Len(atom_data) \div 2,
                        improvement * 5)>>
    ELSE <<>>

\* the modifications one property contributes, if it needs improvement
ModificationsFor(prop, atom_data, current_properties, target) ==
    LET n == current_properties.n
        target_value == TargetValue(target, prop, current_properties)
        current_value == current_properties.props[prop]
        improvement == target_value - current_value
    IN  IF ~(target_value > current_value + 100 * n) THEN <<>>
        ELSE IF prop = "strength"
        THEN generate_strength_modifications(atom_data, improvement, n)
        ELSE IF prop = "flexibility"
        THEN generate_flexibility_modifications(atom_data, improvement, n)
        ELSE IF prop = "biodegradability"
        THEN generate_biodegradability_modifications(atom_data, improvement, n)
        ELSE IF prop = "uv_resistance"
        THEN generate_uv_resistance_modifications(atom_data, improvement, n)
        ELSE IF prop = "water_resistance"
        THEN generate_water_resistance_modifications(atom_data, improvement, n)
        ELSE <<>>

RECURSIVE ModificationsUpTo(_, _, _, _)
ModificationsUpTo(k, atom_data, current_properties, target) ==
    IF k = 0 THEN <<>>
    ELSE ModificationsUpTo(k - 1, atom_data, current_properties, target)
         \o ModificationsFor(PropertyNames[k], atom_data, current_properties, target)

\* ok = FALSE: parse_molecule_string raised
generate_modifications(molecule_string, current_properties, target) ==
    LET parsed == parse_molecule_string(molecule_string)
    IN  [ok |-> parsed.ok,
         modifications |->
            IF parsed.ok
            THEN ModificationsUpTo(Len(PropertyNames), parsed.atoms,
                                   current_properties, target)
            ELSE <<>>]

\* a selection that depends on the call: the first candidate in one run,
\* the last one in a repeated run
best_of_per_run(modifications) ==
    modifications[IF e.pc = "second" THEN Len(modifications) ELSE 1]

\* max(modifications, key=expected_improvement): the first of the largest
best_of(modifications) ==
    modifications[CHOOSE i \in 1..Len(modifications) :
        /\ \A j \in 1..(i - 1) : modifications[j].expected_improvement
                                   < modifications[i].expected_improvement
        /\ \A j \in i..Len(modifications) :
               modifications[j].expected_improvement
                 <= modifications[i].expected_improvement]

----------------------------------------------------------------------------
(* SubAtomicDesigner._apply_modification                                   *)

Atom(symbol, x, y, z) == [symbol |-> symbol, x |-> x, y |-> y, z |-> z]

\* atom_data[target_atom] with Python's negative indices; <<>> is IndexError
PyIndex(atom_data, target_atom) ==
    LET k == IF target_atom < 0 THEN Len(atom_data) + target_atom
             ELSE target_atom
    IN  IF k >= 0 /\ k < Len(atom_data) THEN <<atom_data[k + 1]>> ELSE <<>>

\* a modification step that serializes the atom list as it parsed it
apply_no_modification(molecule_string, modification) ==
    [ok |-> TRUE,
     molecule_string |->
        molecule_to_string(parse_molecule_string(molecule_string).atoms)]

apply_modification(molecule_string, modification) ==
    LET atom_data == parse_molecule_string(molecule_string).atoms
        mod_type == modification.type
        target_atom == modification.target_atom
        at == PyIndex(atom_data, target_atom)
        base == at[1]
        last_atom == atom_data[Len(atom_data)]
        Done(atoms) == [ok |-> TRUE, molecule_string |-> molecule_to_string(atoms)]
        IndexError == [ok |-> FALSE, molecule_string |-> molecule_string]
    IN  IF mod_type = "add_hydroxyl_group"
        THEN IF target_atom < Len(atom_data)
             THEN IF at = <<>> THEN IndexError
                  ELSE IF base.symbol = "C"
                  THEN Done(atom_data \o
                            <<Atom("O", base.x + 14, base.y, base.z),
                              Atom("H", base.x + 24, base.y, base.z)>>)
                  ELSE Done(atom_data)
             ELSE Done(atom_data)
        ELSE IF mod_type = "add_carboxyl_group"
        THEN IF target_atom < Len(atom_data)
             THEN IF at = <<>> THEN IndexError
                  ELSE Done(atom_data \o
                            <<Atom("C", base.x + 15, base.y, base.z),
                              Atom("O", base.x + 15, base.y + 12, base.z),
                              Atom("O", base.x + 29, base.y, base.z),
                              Atom("H", base.x + 39, base.y, base.z)>>)
             ELSE Done(atom_data)
        ELSE IF mod_type = "extend_chain"
        THEN IF atom_data # <<>>
             THEN Done(atom_data \o
                       <<Atom("C", last_atom.x + 15, last_atom.y, last_atom.z),
                         Atom("H", last_atom.x + 15, last_atom.y - 11,
                              last_atom.z + 11),
                         Atom("H", last_atom.x + 15, last_atom.y + 11,
                              last_atom.z + 11)>>)
             ELSE Done(atom_data)
        ELSE IF mod_type = "add_ester_linkage"
        THEN IF target_atom < Len(atom_data)
             THEN IF at = <<>> THEN IndexError
                  ELSE Done(atom_data \o
                            <<Atom("C", base.x + 15, base.y, base.z),
                              Atom("O", base.x + 15, base.y + 12, base.z),
                              Atom("O", base.x + 29, base.y, base.z)>>)
             ELSE Done(atom_data)
        ELSE Done(atom_data)

----------------------------------------------------------------------------
(* SubAtomicDesigner.design_material                                       *)

\* a collaborator's result before the collaborator has been called
NotCalled == [called |-> FALSE]

\* the locals of a run before the loop; calls lists the invocations of the
\* external functions so far, evaluated the structures the loop has scored
StartRun(base_molecule_string, target, max_iterations) ==
    [pc |-> "loop", base |-> base_molecule_string, target |-> target,
     max_iterations |-> max_iterations, iteration |-> 0,
     current_molecule |-> base_molecule_string, design_history |-> <<>>,
     best_score |-> ZeroScore, best_molecule |-> base_molecule_string,
     calls |-> <<>>, simulation_result |-> NotCalled,
     material_properties |-> NotCalled, evaluated |-> <<>>]

\* best tracking without the comparison
TrackLatest(run, fitness_score) ==
    [run EXCEPT !.best_score = fitness_score,
                !.best_molecule = run.current_molecule]

\* best tracking: "if fitness_score > best_score"
TrackBest(run, fitness_score) ==
    IF ScoreGreater(fitness_score, run.best_score)
    THEN [run EXCEPT !.best_score = fitness_score,
                     !.best_molecule = run.current_molecule]
    ELSE run

\* one pass of the body of "for iteration in range(max_iterations)"
Iteration(run) ==
    LET analysis == analyze_molecule_properties(run.current_molecule)
        fitness_score == calculate_fitness(analysis, run.target)
        tracked == [TrackBest(run, fitness_score) EXCEPT
                      !.evaluated = Append(@, run.current_molecule)]
        generated == generate_modifications(run.current_molecule, analysis,
                                            run.target)
        modifications == generated.modifications
        best_modification == best_of(modifications)
        applied == apply_modification(run.current_molecule, best_modification)
    IN  IF ~generated.ok THEN [tracked EXCEPT !.pc = "raised"]
        ELSE IF modifications = <<>> THEN [tracked EXCEPT !.pc = "final"]
        ELSE IF ~applied.ok THEN [tracked EXCEPT !.pc = "raised"]
        ELSE [tracked EXCEPT
                !.current_molecule = applied.molecule_string,
                !.design_history = Append(@,
                    [iteration |-> run.iteration + 1,
                     modification |-> best_modification,
                     fitness_score |-> fitness_score,
                     molecule_string |-> applied.molecule_string]),
                !.iteration = run.iteration + 1,
                !.pc = IF run.iteration + 1 < run.max_iterations
                       THEN "loop" ELSE "final"]

\* the returned dict with the loop counter in place of len(design_history)
ResultCountingBreak(run) ==
    [success |-> TRUE,
     original_molecule |-> run.base,
     designed_molecule |-> run.best_molecule,
     achieved_properties |-> analyze_molecule_properties(run.best_molecule),
     fitness_score |-> run.best_score,
     design_iterations |-> Min(Len(run.design_history) + 1, run.max_iterations),
     design_history |-> run.design_history,
     simulation_result |-> run.simulation_result,
     material_properties |-> run.material_properties]

\* the returned dict with the last structure as the designed one
ResultLast(run) ==
    [success |-> TRUE,
     original_molecule |-> run.base,
     designed_molecule |-> run.current_molecule,
     achieved_properties |-> analyze_molecule_properties(run.current_molecule),
     fitness_score |-> run.best_score,
     design_iterations |-> Len(run.design_history),
     design_history |-> run.design_history,
     simulation_result |-> run.simulation_result,
     material_properties |-> run.material_properties]

\* "Final analysis and simulation" and the returned dict
Result(run) ==
    [success |-> TRUE,
     original_molecule |-> run.base,
     designed_molecule |-> run.best_molecule,
     achieved_properties |-> analyze_molecule_properties(run.best_molecule),
     fitness_score |-> run.best_score,
     design_iterations |-> Len(run.design_history),
     design_history |-> run.design_history,
     simulation_result |-> run.simulation_result,
     material_properties |-> run.material_properties]

\* an invocation of an external function on a molecule string
Call(function, molecule_string) ==
    [function |-> function, molecule_string |-> molecule_string]

\* the statements after the loop, with a collaborator's success = false
\* treated as an exception
FinalAborting(run, simulation_result, material_properties) ==
    [run EXCEPT
       !.calls = @ \o <<Call("run_molecule_simulation", run.best_molecule),
                        Call("predict_material_properties", run.best_molecule)>>,
       !.simulation_result = simulation_result,
       !.material_properties = material_properties,
       !.pc = IF simulation_result.success /\ material_properties.success
              THEN "done" ELSE "raised"]

\* the statements after the loop: run_molecule_simulation(best_molecule,
\* method="hf") and predict_material_properties(best_molecule, num_repeats=3)
\* answer simulation_result and material_properties, which are only stored
Final(run, simulation_result, material_properties) ==
    [run EXCEPT
       !.calls = @ \o <<Call("run_molecule_simulation", run.best_molecule),
                        Call("predict_material_properties", run.best_molecule)>>,
       !.simulation_result = simulation_result,
       !.material_properties = material_properties,
       !.pc = "done"]

RECURSIVE Loop(_)
Loop(run) == IF run.pc = "loop" THEN Loop(Iteration(run)) ELSE run

\* the run on entry to the loop: range(0) never enters the body
design_material_entry(base_molecule_string, target, max_iterations) ==
    LET run == StartRun(base_molecule_string, target, max_iterations)
    IN  IF max_iterations > 0 THEN run ELSE [run EXCEPT !.pc = "final"]

\* a call up to the end of its loop; pc = "raised" is an exception, and
\* Result of the run is the returned dict less the collaborators' answers
design_material(base_molecule_string, target, max_iterations) ==
    Loop(design_material_entry(base_molecule_string, target, max_iterations))

----------------------------------------------------------------------------
(* Inputs of the store operations                                          *)

\* "C 0 0 0; H 1.0 0 0"
ScenarioA ==
    <<<<Sym("C"), Int10(0), Int10(0), Int10(0)>>,
      <<Sym("H"), Num(10), Int10(0), Int10(0)>>>>
Hydroxide == <<Group("O", 0, 0, 0), Group("H", 10, 0, 0), Group("H", -3, 9, 0)>>
EmptyString == <<>>
Malformed == <<Group("C", 0, 0, 0), <<Sym("H"), Num(10)>>>>

MoleculeStrings == {ScenarioA, Hydroxide, EmptyString, Malformed}
Names == {<<"m1">>}
Categories == {"general"}
MoleculeIds == 1..(MaxMolecules + 1)
Methods == {"hf"}

\* MaterialTarget(biodegradability=0.9), the target of Scenario B
ScenarioB == [DefaultTarget EXCEPT !.biodegradability = 9]

\* targets a SubAtomicDesignRequest carries
EndpointTargets == {DefaultTarget, ScenarioB}
EndpointIterations == {1, 2}

\* responses of the external run_molecule_simulation
SimulationResults ==
    {[success |-> ok, classical_energy |-> -5, dipole_moment |-> <<0, 0, 0>>,
      vibrational_frequencies |-> <<>>, agricultural_activity |-> "{}",
      computation_time_ms |-> 0] : ok \in BOOLEAN}

----------------------------------------------------------------------------
(* State of the two connections                                            *)

IdleWriter ==
    [pc |-> "idle", molecule_id |-> 0, atom_data |-> <<>>, txn |-> EmptyTxn]

IdleReader ==
    [pc |-> "idle", molecule_id |-> 0, molecule_row |-> <<>>, columns |-> <<>>,
     description |-> <<>>, atomic_data |-> <<>>, bonds_data |-> <<>>,
     simulation_data |-> <<>>, result |-> NotFoundResult]

\* a completed operation: its name, the molecule id it was called with (0 if
\* none), how it ended, and the id of the molecule it stored (0 if none)
Completed(op, molecule_id, outcome, new_id) ==
    [op |-> op, molecule_id |-> molecule_id, outcome |-> outcome,
     new_id |-> new_id]

NoOperation == Completed("none", 0, "none", 0)

NoCall == [pc |-> "none"]

NoFile == [pc |-> "none", content |-> <<>>, file_format |-> "", parsed |-> NoneResult]

IdleRun == [StartRun(<<>>, DefaultTarget, 0) EXCEPT !.pc = "idle"]

Init ==
    /\ db = EmptyDatabase
    /\ now = 0
    /\ w = IdleWriter
    /\ r = IdleReader
    /\ last = NoOperation
    /\ d = IdleRun
    /\ f = NoFile
    /\ e = NoCall

----------------------------------------------------------------------------
(* add_molecule, statement by statement on its connection                  *)

\* parse, descriptors and INSERT INTO molecules
AddMoleculeBegin(name, molecule_string, category, description) ==
    LET parsed == parse_molecule_string(molecule_string)
        descriptors == calculate_molecular_descriptors(parsed.atoms)
    IN  /\ w.pc = "idle"
        /\ Len(db.molecules) < MaxMolecules
        /\ IF parsed.ok
           THEN /\ w' = [pc |-> "atoms",
                         molecule_id |-> NextMoleculeId(db, EmptyTxn),
                         atom_data |-> parsed.atoms,
                         txn |-> InsertMolecule(db, EmptyTxn, name,
                                    molecule_string, category, description,
                                    NoKwargs, descriptors, now)]
                /\ UNCHANGED <<db, last>>
           ELSE /\ db' = Rollback(db, EmptyTxn)
                /\ last' = Completed("add_molecule", 0, "ParseError", 0)
                /\ UNCHANGED w
        /\ UNCHANGED <<now, r, d, f, e>>

\* one INSERT INTO atomic_properties
AddMoleculeAtom ==
    LET i == Len(w.txn.atomic_properties)
    IN  /\ w.pc = "atoms"
        /\ i < Len(w.atom_data)
        /\ w' = [w EXCEPT !.txn = InsertAtom(db, w.txn, w.molecule_id, i,
                                             w.atom_data[i + 1])]
        /\ UNCHANGED <<db, now, r, last, d, f, e>>

\* self._calculate_and_store_bonds(cursor, molecule_id, atom_data)
AddMoleculeBonds ==
    /\ w.pc = "atoms"
    /\ Len(w.txn.atomic_properties) = Len(w.atom_data)
    /\ w' = [w EXCEPT !.pc = "commit",
                      !.txn = InsertBonds(db, w.txn, w.molecule_id, w.atom_data)]
    /\ UNCHANGED <<db, now, r, last, d, f, e>>

\* conn.commit() and return molecule_id
AddMoleculeCommit ==
    /\ w.pc = "commit"
    /\ db' = Commit(db, w.txn)
    /\ last' = Completed("add_molecule", 0, "ok", w.molecule_id)
    /\ w' = IdleWriter
    /\ UNCHANGED <<now, r, d, f, e>>

\* an exception after the first INSERT: except branch, rollback, re-raise
AddMoleculeFail ==
    /\ w.pc \in {"atoms", "commit"}
    /\ db' = Rollback(db, w.txn)
    /\ last' = Completed("add_molecule", 0, "error", 0)
    /\ w' = IdleWriter
    /\ UNCHANGED <<now, r, d, f, e>>

----------------------------------------------------------------------------
(* get_molecule, statement by statement on its connection                  *)

GetMoleculeBegin(molecule_id) ==
    LET found == SelectMolecule(Visible(db, w.txn), molecule_id)
    IN  /\ r.pc = "idle"
        /\ IF found = <<>>
           THEN r' = [IdleReader EXCEPT !.pc = "done",
                                         !.molecule_id = molecule_id]
           ELSE r' = [IdleReader EXCEPT !.pc = "atoms",
                                         !.molecule_id = molecule_id,
                                         !.molecule_row = found[1],
                                         !.columns = molecules_columns,
                                         !.description = molecules_columns]
        /\ UNCHANGED <<db, now, w, last, d, f, e>>

GetMoleculeAtoms ==
    /\ r.pc = "atoms"
    /\ r' = [r EXCEPT !.pc = "bonds",
                      !.description = atomic_properties_columns,
                      !.atomic_data = SelectAtoms(Visible(db, w.txn), r.molecule_id)]
    /\ UNCHANGED <<db, now, w, last, d, f, e>>

GetMoleculeBonds ==
    /\ r.pc = "bonds"
    /\ r' = [r EXCEPT !.pc = "simulation",
                      !.description = molecular_bonds_columns,
                      !.bonds_data = SelectBonds(Visible(db, w.txn), r.molecule_id)]
    /\ UNCHANGED <<db, now, w, last, d, f, e>>

GetMoleculeSimulation ==
    /\ r.pc = "simulation"
    /\ \E simulation_data \in
            SelectLatestSimulation(Visible(db, w.txn), r.molecule_id) :
          r' = [r EXCEPT !.pc = "material",
                         !.description = simulation_results_columns,
                         !.simulation_data = simulation_data]
    /\ UNCHANGED <<db, now, w, last, d, f, e>>

\* the last SELECT, conn.close(), and the structured response
GetMoleculeMaterial ==
    /\ r.pc = "material"
    /\ r' = [r EXCEPT !.pc = "done",
                      !.description = material_properties_columns,
                      !.result = Structure(r.molecule_row, r.columns,
                          material_properties_columns, r.atomic_data,
                          r.bonds_data, r.simulation_data,
                          SelectMaterial(Visible(db, w.txn), r.molecule_id))]
    /\ UNCHANGED <<db, now, w, last, d, f, e>>

\* the caller takes the result
GetMoleculeReturn ==
    /\ r.pc = "done"
    /\ r' = IdleReader
    /\ UNCHANGED <<db, now, w, last, d, f, e>>

----------------------------------------------------------------------------
(* MolecularDatabase.run_and_cache_simulation                              *)

RunAndCacheSimulation(molecule_id, method, result, capacity) ==
    \E simulation_data \in SelectLatestSimulation(db, molecule_id) :
      LET molecule == get_molecule(db, molecule_id, simulation_data)
          dipole == result.dipole_moment
          row == <<Len(db.simulation_results) + 1, molecule_id, method,
                   result.classical_energy, dipole[1], dipole[2], dipole[3],
                   result.vibrational_frequencies, result.agricultural_activity,
                   result.computation_time_ms, now>>
      IN  /\ w.pc = "idle"
          /\ IF ~molecule.found
             THEN /\ last' = Completed("run_and_cache_simulation",
                                        molecule_id, "NotFound", 0)
                  /\ UNCHANGED db
             ELSE /\ last' = Completed("run_and_cache_simulation", molecule_id,
                                 IF result.success THEN "cached" ELSE "failed", 0)
                  /\ IF result.success
                     THEN /\ Len(db.simulation_results) < capacity
                          /\ db' = [db EXCEPT !.simulation_results =
                                        Append(@, row)]
                     ELSE UNCHANGED db
          /\ UNCHANGED <<now, w, r, d, f, e>>

----------------------------------------------------------------------------
(* MolecularDatabase.design_sub_atomic_material                            *)

\* target_properties dicts; a key that is not supplied reads as 0 (.get)
TargetProperties ==
    {[flexibility |-> 0, strength |-> 0, biodegradability |-> 0],
     [flexibility |-> 8, strength |-> 9, biodegradability |-> 7]}

\* responses of the external predict_material_properties
MaterialResults ==
    {[success |-> ok, tensile_strength_mpa |-> 0, flexibility_score |-> 0,
      biodegradability_score |-> 0, uv_stability_score |-> 0,
      water_resistance_score |-> 0, estimated_cost_usd_per_kg |-> 0,
      carbon_footprint_score |-> 0, rwanda_applications |-> <<>>]
        : ok \in BOOLEAN}

HasKeys(atom, keys) == keys \subseteq DOMAIN atom

\* one pass of the loop over modified_atoms; i is 0-based; replace says
\* whether np.random.random() < 0.1 came out true for this atom.
\* Scaled coordinates are cut to the model's tenths.
OptimizeAtom(atom, i, target_properties, replace) ==
    LET a1 == IF target_properties.flexibility > 7
              THEN [atom EXCEPT !["x_coord"] = (@ * 105) \div 100,
                                !["y_coord"] = (@ * 105) \div 100]
              ELSE atom
        a2 == IF target_properties.strength > 8 /\ a1["element_symbol"] = "C"
              THEN [a1 EXCEPT !["x_coord"] = (@ * 98) \div 100,
                              !["y_coord"] = (@ * 98) \div 100]
              ELSE a1
    IN  IF target_properties.biodegradability > 6 /\ i % 3 = 0
           /\ a2["element_symbol"] = "C" /\ replace
        THEN [a2 EXCEPT !["element_symbol"] = "O"]
        ELSE a2

\* the atom field names the optimizer and the join read
AtomKeys == {"element_symbol", "x_coord", "y_coord", "z_coord"}

\* _optimize_atomic_structure followed by the join that builds
\* modified_molecule_string; ok = FALSE is the KeyError of a dict that lacks
\* an atom field name.  replaced is the set of atom indices (0-based) where
\* the random draw fell below 0.1.
optimize_atomic_structure(atoms, target_properties, replaced) ==
    LET modified_atoms ==
            [k \in 1..Len(atoms) |->
                OptimizeAtom(atoms[k], k - 1, target_properties,
                             (k - 1) \in replaced)]
    IN  IF \E k \in 1..Len(atoms) : ~HasKeys(atoms[k], AtomKeys)
        THEN [ok |-> FALSE, molecule_string |-> <<>>]
        ELSE [ok |-> TRUE,
              molecule_string |->
                [k \in 1..Len(atoms) |->
                    Group(modified_atoms[k]["element_symbol"],
                          modified_atoms[k]["x_coord"],
                          modified_atoms[k]["y_coord"],
                          modified_atoms[k]["z_coord"])]]

\* the atoms on which the random number is drawn at all
DrawnAtoms(atoms, target_properties) ==
    {i \in 0..(Len(atoms) - 1) :
        /\ HasKeys(atoms[i + 1], AtomKeys)
        /\ target_properties.biodegradability > 6
        /\ i % 3 = 0
        /\ atoms[i + 1]["element_symbol"] = "C"}

\* _store_material_properties: INSERT INTO material_properties
store_material_properties(tables, molecule_id, material_result, target_properties) ==
    [tables EXCEPT !.material_properties = Append(@,
        <<Len(tables.material_properties) + 1, molecule_id,
          material_result.tensile_strength_mpa,
          material_result.flexibility_score,
          material_result.biodegradability_score,
          material_result.uv_stability_score,
          material_result.water_resistance_score,
          85,
          material_result.estimated_cost_usd_per_kg,
          material_result.carbon_footprint_score,
          target_properties,
          material_result.rwanda_applications>>)]

DesignSubAtomicMaterial(base_molecule_id, target_properties, material_result) ==
    \E simulation_data \in SelectLatestSimulation(db, base_molecule_id) :
      LET molecule == get_molecule(db, base_molecule_id, simulation_data)
          atoms == molecule.atomic_properties
          op == "design_sub_atomic_material"
      IN  /\ w.pc = "idle"
          /\ IF ~molecule.found
             THEN /\ last' = Completed(op, base_molecule_id, "NotFound", 0)
                  /\ UNCHANGED db
             ELSE \E replaced \in SUBSET DrawnAtoms(atoms, target_properties) :
                    LET modified == optimize_atomic_structure(atoms,
                                        target_properties, replaced)
                        name == molecule.molecule["name"]
                        added == add_molecule(db,
                            <<"Designed_">> \o name \o <<"_v", ToString(now)>>,
                            modified.molecule_string, "designed_material",
                            <<"Sub-atomic designed material based on ">> \o name
                                \o <<" for ", ToString(target_properties)>>,
                            NoKwargs, now)
                    IN  IF ~modified.ok
                        THEN /\ last' = Completed(op, base_molecule_id,
                                                  "KeyError", 0)
                             /\ UNCHANGED db
                        ELSE /\ Len(db.molecules) < MaxMolecules
                             /\ IF ~added.ok
                                THEN /\ last' = Completed(op, base_molecule_id,
                                                          "error", 0)
                                     /\ db' = added.db
                                ELSE /\ last' = Completed(op, base_molecule_id,
                                                "ok", added.molecule_id)
                                     /\ db' = IF material_result.success
                                              THEN store_material_properties(
                                                     added.db, added.molecule_id,
                                                     material_result,
                                                     target_properties)
                                              ELSE added.db
          /\ UNCHANGED <<now, w, r, d, f, e>>

----------------------------------------------------------------------------
(* main.design_sub_atomic_material_endpoint                                *)

DesignEndpoint(base_molecule_id, target, max_iterations) ==
    \E simulation_data \in SelectLatestSimulation(db, base_molecule_id) :
      LET base_molecule == get_molecule(db, base_molecule_id, simulation_data)
          run == design_material(base_molecule.molecule["molecule_string"],
                                 target, max_iterations)
          design_result == Result(run)
          added == add_molecule(db,
                      <<"SubAtomic_Design_", ToString(base_molecule_id), "_",
                        ToString(now)>>,
                      design_result.designed_molecule, "sub_atomic_designed",
                      <<"Sub-atomic designed material based on molecule ",
                        ToString(base_molecule_id)>>,
                      NoKwargs, now)
          op == "design_sub_atomic_material_endpoint"
      IN  /\ w.pc = "idle"
          /\ IF ~base_molecule.found
             THEN /\ last' = Completed(op, base_molecule_id, "NotFound", 0)
                  /\ UNCHANGED db
             ELSE IF run.pc = "raised"
             THEN /\ last' = Completed(op, base_molecule_id, "error", 0)
                  /\ UNCHANGED db
             ELSE /\ Len(db.molecules) < MaxMolecules
                  /\ db' = added.db
                  /\ last' = IF added.ok
                             THEN Completed(op, base_molecule_id, "ok",
                                            added.molecule_id)
                             ELSE Completed(op, base_molecule_id, "error", 0)
          /\ UNCHANGED <<now, w, r, d, f, e>>

----------------------------------------------------------------------------
(* Whole calls of add_molecule and get_molecule                            *)

\* upload_molecule_endpoint's call of add_molecule, from entry to return
AddMolecule(name, molecule_string, category, description) ==
    LET added == add_molecule(db, name, molecule_string, category,
                              description, NoKwargs, now)
    IN  /\ w.pc = "idle"
        /\ Len(db.molecules) < MaxMolecules
        /\ db' = added.db
        /\ last' = IF added.ok
                   THEN Completed("add_molecule", 0, "ok", added.molecule_id)
                   ELSE Completed("add_molecule", 0, added.error, 0)
        /\ UNCHANGED <<now, w, r, d, f, e>>

\* a call of get_molecule with no commit between its statements
GetMolecule(molecule_id) ==
    \E simulation_data \in SelectLatestSimulation(db, molecule_id) :
      LET molecule == get_molecule(db, molecule_id, simulation_data)
      IN  /\ last' = Completed("get_molecule", molecule_id,
                               IF molecule.found THEN "ok" ELSE "NotFound", 0)
          /\ UNCHANGED <<db, now, w, r, d, f, e>>

----------------------------------------------------------------------------
(* Spec: one add_molecule and one get_molecule, each on its own            *)
(* connection and interleaved statement by statement, with simulations     *)
(* cached in between.                                                      *)

Next ==
    \/ \E name \in Names, molecule_string \in MoleculeStrings,
          category \in Categories :
          AddMoleculeBegin(name, molecule_string, category, <<>>)
    \/ AddMoleculeAtom
    \/ AddMoleculeBonds
    \/ AddMoleculeCommit
    \/ AddMoleculeFail
    \/ \E molecule_id \in MoleculeIds : GetMoleculeBegin(molecule_id)
    \/ GetMoleculeAtoms
    \/ GetMoleculeBonds
    \/ GetMoleculeSimulation
    \/ GetMoleculeMaterial
    \/ GetMoleculeReturn
    \/ \E molecule_id \in MoleculeIds, method \in Methods,
          result \in SimulationResults :
          RunAndCacheSimulation(molecule_id, method, result, MaxSimulations)

Spec == Init /\ [][Next]_vars

(* SpecOperations: the store and design operations as whole calls, one     *)
(* after the other.                                                        *)

NextOperations ==
    \/ \E name \in Names, molecule_string \in MoleculeStrings,
          category \in Categories :
          AddMolecule(name, molecule_string, category, <<>>)
    \/ \E molecule_id \in MoleculeIds : GetMolecule(molecule_id)
    \/ \E molecule_id \in MoleculeIds, method \in Methods,
          result \in SimulationResults :
          RunAndCacheSimulation(molecule_id, method, result, MaxSimulations)
    \/ \E base_molecule_id \in MoleculeIds,
          target_properties \in TargetProperties,
          material_result \in MaterialResults :
          DesignSubAtomicMaterial(base_molecule_id, target_properties,
                                  material_result)
    \/ \E base_molecule_id \in MoleculeIds, target \in EndpointTargets,
          max_iterations \in EndpointIterations :
          DesignEndpoint(base_molecule_id, target, max_iterations)

SpecOperations == Init /\ [][NextOperations]_vars

----------------------------------------------------------------------------
(* A design run, iteration by iteration                                    *)

\* a chain of carbon and hydrogen atoms 1.0 A apart: symbols is a sequence
Chain(symbols) ==
    [k \in 1..Len(symbols) |-> Group(symbols[k], 10 * (k - 1), 0, 0)]

CarbonHydrogenBases ==
    UNION {{Chain(symbols) : symbols \in [1..n -> {"C", "H"}]} :
           n \in 1..MaxBaseAtoms}

Chloroform == <<Group("C", 0, 0, 0), Group("Cl", 17, 0, 0), Group("H", -10, 0, 0)>>

BaseStructures ==
    CarbonHydrogenBases \cup {Hydroxide, Chloroform, EmptyString, Malformed}

\* the targets create_molecular_library_endpoint builds per application
Packaging ==
    [strength |-> 8, flexibility |-> 4, biodegradability |-> 6,
     uv_resistance |-> 7, water_resistance |-> 8, cost_effectiveness |-> 7,
     environmental_safety |-> 9, agricultural_suitability |-> 8]
Mulch ==
    [strength |-> 5, flexibility |-> 6, biodegradability |-> 9,
     uv_resistance |-> 8, water_resistance |-> 3, cost_effectiveness |-> 8,
     environmental_safety |-> 9, agricultural_suitability |-> 9]
Irrigation ==
    [strength |-> 7, flexibility |-> 8, biodegradability |-> 4,
     uv_resistance |-> 9, water_resistance |-> 9, cost_effectiveness |-> 6,
     environmental_safety |-> 8, agricultural_suitability |-> 7]

Targets == {DefaultTarget, ScenarioB, Packaging, Mulch, Irrigation}

DesignStart(base_molecule_string, target, max_iterations) ==
    /\ d.pc = "idle"
    /\ d' = design_material_entry(base_molecule_string, target, max_iterations)
    /\ UNCHANGED <<db, now, w, r, last, f, e>>

DesignIterate ==
    /\ d.pc = "loop"
    /\ d' = Iteration(d)
    /\ UNCHANGED <<db, now, w, r, last, f, e>>

\* the statements after the loop; the caller receives Result(d)
DesignFinish(simulation_result, material_properties) ==
    /\ d.pc = "final"
    /\ d' = Final(d, simulation_result, material_properties)
    /\ UNCHANGED <<db, now, w, r, last, f, e>>

\* the caller drops the result, or the exception has propagated
DesignEnd ==
    /\ d.pc \in {"done", "raised"}
    /\ d' = IdleRun
    /\ UNCHANGED <<db, now, w, r, last, f, e>>

NextDesign ==
    \/ \E base_molecule_string \in BaseStructures, target \in Targets,
          max_iterations \in 0..MaxIterations :
          DesignStart(base_molecule_string, target, max_iterations)
    \/ DesignIterate
    \/ \E simulation_result \in SimulationResults,
          material_properties \in MaterialResults :
          DesignFinish(simulation_result, material_properties)
    \/ DesignEnd

SpecDesign == Init /\ [][NextDesign]_vars

----------------------------------------------------------------------------
(* SpecFile: a molecule file is parsed, and uploaded to the empty store    *)

RECURSIVE SeqsUpTo(_, _)
SeqsUpTo(S, n) ==
    IF n = 0 THEN {<<>>}
    ELSE LET shorter == SeqsUpTo(S, n - 1)
         IN  shorter \cup {Append(q, x) : q \in {q \in shorter : Len(q) = n - 1},
                                          x \in S}

Comment == <<Sym("comment")>>

XyzLines ==
    {<<Int10(k)>> : k \in 0..3} \cup
    {Comment,
     <<Sym("C"), Int10(0), Int10(0), Int10(0)>>,
     <<Sym("H"), Num(10), Int10(0), Int10(0)>>,
     <<Sym("H"), Num(10)>>,
     <<Sym("H"), Sym("x"), Int10(0), Int10(0)>>}

XyzFiles ==
    SeqsUpTo(XyzLines, MaxLines) \cup
    {<<<<Int10(-3)>>, Comment, <<Sym("C"), Int10(0), Int10(0), Int10(0)>>,
       <<Sym("H"), Num(10), Int10(0), Int10(0)>>>>,
     <<<<>>, <<Int10(1)>>, Comment, <<Sym("C"), Int10(0), Int10(0), Int10(0)>>>>}

MolHeader == <<<<Sym("title")>>, <<Sym("program")>>, Comment>>

MolLines ==
    {<<Int10(k), Int10(0)>> : k \in 0..3} \cup
    {<<Sym("V2000")>>,
     <<Num(0), Num(0), Num(0), Sym("C")>>,
     <<Num(10), Num(0), Num(0), Sym("H")>>,
     <<Num(10), Num(0)>>,
     <<Sym("x"), Num(0), Num(0), Sym("H")>>}

MolFiles ==
    {MolHeader \o tail : tail \in SeqsUpTo(MolLines, MaxLines - 1)}
    \cup {<<>>, <<Comment>>,
          <<<<>>>> \o MolHeader \o <<<<Int10(1), Int10(0)>>,
                                     <<Num(0), Num(0), Num(0), Sym("C")>>>>}

PdbLines ==
    {<<Sym("ATOM"), Sym("C"), Num(0), Num(0), Num(0), Sym("C")>>,
     <<Sym("HETATM"), Sym("CA"), Num(15), Num(0), Num(0)>>,
     <<Sym("ATOM"), Blank, Num(0), Num(0), Num(0)>>,
     <<Sym("ATOM"), Sym("H"), Sym("x"), Num(0), Num(0), Sym("H")>>,
     <<Sym("ATOM"), Sym("H")>>,
     <<Sym("REMARK"), Sym("H"), Num(0), Num(0), Num(0), Sym("H")>>}

PdbFiles == SeqsUpTo(PdbLines, MaxLines - 1)

RawFiles ==
    {<<>>, <<<<>>>>, <<<<>>, <<>>>>, ScenarioA, Malformed,
     <<<<Sym("hello"), Sym("world")>>>>}

FileInputs ==
    {[pc |-> "ready", content |-> content, file_format |-> ".xyz",
      parsed |-> NoneResult] : content \in XyzFiles}
    \cup
    {[pc |-> "ready", content |-> content, file_format |-> file_format,
      parsed |-> NoneResult] : content \in MolFiles,
                               file_format \in {".mol", ".sdf"}}
    \cup
    {[pc |-> "ready", content |-> content, file_format |-> ".pdb",
      parsed |-> NoneResult] : content \in PdbFiles}
    \cup
    {[pc |-> "ready", content |-> content, file_format |-> ".txt",
      parsed |-> NoneResult] : content \in RawFiles}

InitFile ==
    /\ db = EmptyDatabase
    /\ now = 0
    /\ w = IdleWriter
    /\ r = IdleReader
    /\ last = NoOperation
    /\ d = IdleRun
    /\ f \in FileInputs
    /\ e = NoCall

\* the codec alone
ParseMoleculeFile ==
    /\ f.pc = "ready"
    /\ f' = [f EXCEPT !.pc = "parsed",
                      !.parsed = parse_molecule_file(f.content, f.file_format)]
    /\ UNCHANGED <<db, now, w, r, last, d, e>>

\* upload_molecule_file_endpoint's call of add_molecule_from_file
AddMoleculeFromFile(name, category) ==
    LET added == add_molecule_from_file(db, f.content, f.file_format, name,
                                        category, <<>>, now)
    IN  /\ f.pc = "ready"
        /\ db' = added.db
        /\ last' = IF added.ok
                   THEN Completed("add_molecule_from_file", 0, "ok",
                                  added.molecule_id)
                   ELSE Completed("add_molecule_from_file", 0, added.error, 0)
        /\ f' = [f EXCEPT !.pc = "added"]
        /\ UNCHANGED <<now, w, r, d, e>>

NextFile ==
    \/ ParseMoleculeFile
    \/ \E name \in Names, category \in Categories :
          AddMoleculeFromFile(name, category)

SpecFile == InitFile /\ [][NextFile]_vars

----------------------------------------------------------------------------
(* Properties of the store: add_molecule and get_molecule                  *)

MoleculeIdsOf(tables) == {tables.molecules[k][1] : k \in 1..Len(tables.molecules)}

\* the atom rows of a molecule row are those of its parsed structure
AtomsComplete(molecule_row, atom_rows) ==
    LET parsed == parse_molecule_string(molecule_row[4])
    IN  /\ parsed.ok
        /\ Len(atom_rows) = Len(parsed.atoms)
        /\ \A k \in 1..Len(atom_rows) :
              /\ atom_rows[k][2] = molecule_row[1]
              /\ atom_rows[k][3] = k - 1
              /\ atom_rows[k][4] = parsed.atoms[k].symbol
              /\ atom_rows[k][5] = parsed.atoms[k].x
              /\ atom_rows[k][6] = parsed.atoms[k].y
              /\ atom_rows[k][7] = parsed.atoms[k].z

\* the bond rows of a molecule row are the bonds inferred from its structure
BondsComplete(molecule_row, bond_rows) ==
    LET parsed == parse_molecule_string(molecule_row[4])
        inferred == calculate_and_store_bonds(molecule_row[1], parsed.atoms, 1)
    IN  /\ Len(bond_rows) = Len(inferred)
        /\ \A k \in 1..Len(bond_rows) :
              SubSeq(bond_rows[k], 2, 7) = SubSeq(inferred[k], 2, 7)

\* no atom row or bond row without its molecule row
NoOrphanRows(tables) ==
    /\ \A k \in 1..Len(tables.atomic_properties) :
          tables.atomic_properties[k][2] \in MoleculeIdsOf(tables)
    /\ \A k \in 1..Len(tables.molecular_bonds) :
          tables.molecular_bonds[k][2] \in MoleculeIdsOf(tables)

StoreComplete(tables) ==
    /\ NoOrphanRows(tables)
    /\ \A k \in 1..Len(tables.molecules) :
          /\ AtomsComplete(tables.molecules[k],
                           RowsOf(tables.atomic_properties, tables.molecules[k][1]))
          /\ BondsComplete(tables.molecules[k],
                           RowsOf(tables.molecular_bonds, tables.molecules[k][1]))

\* C1: in every reachable state, whatever add_molecule calls have committed
\* or failed part-way, each molecule row in the store has every atom of its
\* parsed structure and every inferred bond stored with it, no atom or bond
\* row exists without its molecule row, and a failing add_molecule leaves
\* the store exactly as it was.
C1_AddMoleculeAtomic ==
    /\ [](StoreComplete(db))
    /\ [][(w.pc # "idle" /\ w'.pc = "idle" /\ last'.outcome # "ok")
            => db' = db]_vars

\* a molecule with a bond is stored and a later add_molecule has failed
\* after its first INSERT
C1_Witness ==
    /\ last.op = "add_molecule" /\ last.outcome = "error"
    /\ Len(db.molecules) >= 1
    /\ Len(db.molecular_bonds) >= 1

\* C2: a get_molecule whose statements interleave with those of an
\* add_molecule on another connection never returns a torn molecule: when it
\* finds the molecule row, the atom rows and bond rows it has read are the
\* complete lists of that molecule, and otherwise it reports nothing at all.
C2_NoTornRead ==
    r.pc = "done" =>
        IF r.result.found
        THEN /\ AtomsComplete(r.molecule_row, r.atomic_data)
             /\ BondsComplete(r.molecule_row, r.bonds_data)
             /\ Len(r.result.atomic_properties) = Len(r.atomic_data)
             /\ Len(r.result.bonds) = Len(r.bonds_data)
        ELSE r.result = NotFoundResult

\* a reader has returned a molecule with its bond while a writer holds
\* uncommitted rows
C2_Witness ==
    /\ r.pc = "done" /\ r.result.found
    /\ Len(r.bonds_data) >= 1
    /\ w.pc = "commit" /\ Len(w.txn.atomic_properties) >= 1

\* C4: get_molecule returns the atoms of a stored molecule as written by
\* add_molecule: the k-th atom carries atom index k (from 0) and the stored
\* element symbol and coordinates under the field names atom_index,
\* element_symbol, x_coord, y_coord, z_coord, and the bonds carry the stored
\* atom indices, type, order and length.
C4_ReturnedFields ==
    (r.pc = "done" /\ r.result.found) =>
        LET atoms == r.result.atomic_properties
            bonds == r.result.bonds
            atom_rows == SelectAtoms(db, r.molecule_id)
            bond_rows == SelectBonds(db, r.molecule_id)
        IN  /\ Len(atoms) = Len(atom_rows)
            /\ \A k \in 1..Len(atoms) :
                  /\ {"atom_index", "element_symbol", "x_coord", "y_coord",
                      "z_coord"} \subseteq DOMAIN atoms[k]
                  /\ atoms[k]["atom_index"] = k - 1
                  /\ atoms[k]["element_symbol"] = atom_rows[k][4]
                  /\ atoms[k]["x_coord"] = atom_rows[k][5]
                  /\ atoms[k]["y_coord"] = atom_rows[k][6]
                  /\ atoms[k]["z_coord"] = atom_rows[k][7]
            /\ Len(bonds) = Len(bond_rows)
            /\ \A k \in 1..Len(bonds) :
                  /\ {"atom1_index", "atom2_index", "bond_type", "bond_order",
                      "bond_length"} \subseteq DOMAIN bonds[k]
                  /\ bonds[k]["atom1_index"] = bond_rows[k][3]
                  /\ bonds[k]["atom2_index"] = bond_rows[k][4]
                  /\ bonds[k]["bond_type"] = bond_rows[k][5]
                  /\ bonds[k]["bond_order"] = bond_rows[k][6]
                  /\ bonds[k]["bond_length"] = bond_rows[k][7]

\* get_molecule has returned a stored molecule of two atoms and a bond
C4_Witness ==
    /\ r.pc = "done" /\ r.result.found
    /\ Len(r.result.atomic_properties) >= 2
    /\ Len(r.result.bonds) >= 1

----------------------------------------------------------------------------
(* Properties of the store operations as whole calls                       *)

DesignOperations ==
    {"design_sub_atomic_material", "design_sub_atomic_material_endpoint"}

LookupOperations ==
    {"get_molecule", "run_and_cache_simulation"} \cup DesignOperations

\* the name, canonical string, atoms and bonds of every stored molecule
\* are the same before and after the step
StoredMoleculesKept ==
    \A k \in 1..Len(db.molecules) :
        /\ Len(db'.molecules) >= k
        /\ db'.molecules[k][1] = db.molecules[k][1]
        /\ db'.molecules[k][2] = db.molecules[k][2]
        /\ db'.molecules[k][4] = db.molecules[k][4]
        /\ RowsOf(db'.atomic_properties, db.molecules[k][1])
             = RowsOf(db.atomic_properties, db.molecules[k][1])
        /\ RowsOf(db'.molecular_bonds, db.molecules[k][1])
             = RowsOf(db.molecular_bonds, db.molecules[k][1])

\* C3: no step of add_molecule, run_and_cache_simulation,
\* design_sub_atomic_material or the design endpoint changes the name,
\* canonical string, atoms or bonds of a molecule already stored, and a
\* design that succeeds stores its result as a new molecule under an id
\* that no stored molecule had.
C3_StoredMoleculeImmutable ==
    [][/\ StoredMoleculesKept
       /\ (last' # last /\ last'.op \in DesignOperations /\ last'.outcome = "ok")
            => /\ last'.new_id \notin MoleculeIdsOf(db)
               /\ last'.new_id \in MoleculeIdsOf(db')
               /\ last'.new_id # last'.molecule_id]_vars

\* the design endpoint has stored a design of a base molecule that has
\* atoms and a bond
C3_Witness ==
    /\ last.op = "design_sub_atomic_material_endpoint" /\ last.outcome = "ok"
    /\ last.molecule_id \in MoleculeIdsOf(db)
    /\ RowsOf(db.molecular_bonds, last.molecule_id) # <<>>
    /\ last.new_id \in MoleculeIdsOf(db)

\* C5: when get_molecule, run_and_cache_simulation,
\* design_sub_atomic_material or the design endpoint is called with a
\* molecule id that is not in the store, it reports not-found and the store
\* is left as it was.
C5_AbsentIdNotFound ==
    [][(/\ last'.op \in LookupOperations
        /\ last'.molecule_id \notin MoleculeIdsOf(db)
        /\ (last' # last \/ db' # db))
         => (last'.outcome = "NotFound" /\ db' = db)]_vars

\* the design endpoint has reported not-found for an id beside a stored
\* molecule
C5_Witness ==
    /\ last.op = "design_sub_atomic_material_endpoint"
    /\ last.outcome = "NotFound"
    /\ last.molecule_id \notin MoleculeIdsOf(db)
    /\ Len(db.molecules) >= 1

----------------------------------------------------------------------------
(* Properties of the structure codec and of file uploads                   *)

CountedFormats == {".xyz", ".mol", ".sdf"}

\* the file declares an atom count: the count line is where the format puts it
DeclaresCount(file) ==
    LET lines == Lines(file.content)
    IN  IF file.file_format = ".xyz"
        THEN Len(lines) >= 2 /\ IsInt(lines[1]) /\ lines[1][1].n >= 0
        ELSE /\ Len(lines) >= 4
             /\ lines[4] # <<>>
             /\ lines[4][1].kind = "int"
             /\ lines[4][1].n >= 0

DeclaredCount(file) ==
    LET lines == Lines(file.content)
    IN  IF file.file_format = ".xyz" THEN lines[1][1].n ELSE lines[4][1].n

\* the k-th atom line of the file (k from 1)
AtomLine(file, k) ==
    LET lines == Lines(file.content)
    IN  IF file.file_format = ".xyz" THEN lines[k + 2] ELSE lines[k + 4]

\* the group the k-th atom line stands for
AtomOfLine(file, k) ==
    LET parts == AtomLine(file, k)
    IN  IF file.file_format = ".xyz"
        THEN <<parts[1], Num(FloatOf(parts[2])), Num(FloatOf(parts[3])),
               Num(FloatOf(parts[4]))>>
        ELSE <<parts[4], Num(FloatOf(parts[1])), Num(FloatOf(parts[2])),
               Num(FloatOf(parts[3]))>>

\* C6: parsing a coordinate-list or tabular-chem text that declares n atoms
\* yields exactly n atoms, the n atom lines in order, or fails; a count
\* beyond the lines present or an atom line with too few fields is never a
\* shorter structure.
C6_DeclaredCountOrError ==
    (f.pc = "parsed" /\ f.file_format \in CountedFormats /\ DeclaresCount(f)
        /\ f.parsed.ok)
      => /\ Len(f.parsed.molecule_string) = DeclaredCount(f)
         /\ \A k \in 1..DeclaredCount(f) :
               f.parsed.molecule_string[k] = AtomOfLine(f, k)

\* a file declaring two atoms has parsed to its two atoms
C6_Witness ==
    /\ f.pc = "parsed" /\ f.file_format \in CountedFormats /\ DeclaresCount(f)
    /\ DeclaredCount(f) = 2
    /\ f.parsed.ok
    /\ Len(f.parsed.molecule_string) = 2

\* C7: add_molecule_from_file on a file from which no atom can be parsed,
\* in any format, raises and stores nothing; a failed upload leaves the
\* store empty, and the molecule a successful upload stores has at least
\* one atom.
C7_NoZeroAtomFromFile ==
    f.pc = "added" =>
        LET parsed == parse_molecule_file(f.content, f.file_format)
        IN  /\ (~parsed.ok \/ parsed.molecule_string = <<>>)
                => last.outcome # "ok"
            /\ last.outcome # "ok" => db = EmptyDatabase
            /\ last.outcome = "ok"
                => /\ Len(db.molecules) = 1
                   /\ db.molecules[1][9] >= 1
                   /\ Len(RowsOf(db.atomic_properties, last.new_id)) >= 1

\* a coordinate-list file whose declared atoms are all missing or too short
\* has been refused
C7_Witness ==
    /\ f.pc = "added" /\ f.file_format = ".xyz"
    /\ parse_molecule_file(f.content, f.file_format).ok
    /\ parse_molecule_file(f.content, f.file_format).molecule_string = <<>>
    /\ last.outcome = "ValueError"
    /\ db = EmptyDatabase

----------------------------------------------------------------------------
(* Properties of a design run                                              *)

\* C8: across a design run the best-seen score never decreases: after each
\* iteration, and after the final statements, best_score is at least what
\* it was before.
C8_BestScoreMonotone ==
    [][(d.pc \in {"loop", "final"} /\ d'.pc # "idle")
         => ~ScoreGreater(d.best_score, d'.best_score)]_vars

\* an iteration past the first has scored its molecule below the best seen
C8_Witness ==
    /\ d.pc \in {"loop", "final"}
    /\ d.iteration >= 2
    /\ ScoreGreater(d.best_score, d.design_history[d.iteration].fitness_score)

\* the molecule that enters iteration k (k from 1, as design_history counts)
Entering(run, k) ==
    IF k = 1 THEN run.base ELSE run.design_history[k - 1].molecule_string

\* iteration k proposes no candidate modification
NoCandidates(run, k) ==
    LET molecule == Entering(run, k)
    IN  generate_modifications(molecule, analyze_molecule_properties(molecule),
                               run.target).modifications = <<>>

\* k is the first iteration of the run that proposes no candidate
FirstWithoutCandidates(run, k) ==
    /\ k \in 1..Min(Len(run.design_history) + 1, run.max_iterations)
    /\ NoCandidates(run, k)
    /\ \A j \in 1..(k - 1) : ~NoCandidates(run, j)

\* C9 as stated: design_iterations is at most max_iterations, and when an
\* iteration proposes no candidate before max_iterations is reached,
\* design_iterations equals the number of that iteration.
C9_StopsAtFirstEmptyIteration ==
    d.pc = "done" =>
        /\ Result(d).design_iterations <= d.max_iterations
        /\ \A k \in 1..d.max_iterations :
              FirstWithoutCandidates(d, k) => Result(d).design_iterations = k

\* C9: design_iterations is at most max_iterations and counts the
\* iterations that applied a modification; when iteration k, numbered from
\* 1 as in design_history, is the first to propose no candidate,
\* design_iterations equals k - 1.
C9_CountsAppliedIterations ==
    d.pc = "done" =>
        /\ Result(d).design_iterations <= d.max_iterations
        /\ Result(d).design_iterations = Len(d.design_history)
        /\ \A k \in 1..Len(d.design_history) :
              d.design_history[k].iteration = k
        /\ \A k \in 1..d.max_iterations :
              FirstWithoutCandidates(d, k)
                => Result(d).design_iterations = k - 1

\* a run has stopped early after applying at least one modification
C9_Witness ==
    /\ d.pc = "done"
    /\ Len(d.design_history) >= 1
    /\ Len(d.design_history) < d.max_iterations
    /\ FirstWithoutCandidates(d, Len(d.design_history) + 1)

\* a.props[p] / a.n > b.props[p] / b.n on analyses
PropertyGreater(a, b, p) == a.props[p] * b.n > b.props[p] * a.n

\* C10: with the target of Scenario B (biodegradability 0.9, the rest at
\* their defaults), a run of at least two iterations on a base of carbon
\* and hydrogen atoms only returns an achieved biodegradability strictly
\* above the estimate of the base, and its history holds an
\* add_hydroxyl_group or add_carboxyl_group modification.
C10_ScenarioB ==
    (/\ d.pc = "done"
     /\ d.target = ScenarioB
     /\ d.base \in CarbonHydrogenBases
     /\ d.max_iterations >= 2)
      => /\ PropertyGreater(Result(d).achieved_properties,
                            analyze_molecule_properties(d.base),
                            "biodegradability")
         /\ \E k \in 1..Len(Result(d).design_history) :
               Result(d).design_history[k].modification.type
                 \in {"add_hydroxyl_group", "add_carboxyl_group"}

\* a Scenario B run on a carbon/hydrogen base has used all of its three
\* iterations
C10_Witness ==
    /\ d.pc = "done"
    /\ d.target = ScenarioB
    /\ d.base \in CarbonHydrogenBases
    /\ d.max_iterations >= 3
    /\ Len(d.design_history) = d.max_iterations

----------------------------------------------------------------------------
(* SpecEstimate: the property estimator applied to a structure             *)

EstimateSymbols == {"C", "H", "O", "N", "Cl", "Si"}

\* ten atoms of ten different elements
TenElements == Chain(<<"C", "H", "O", "N", "Cl", "Si", "F", "Br", "I", "Pb">>)

EstimateStructures ==
    UNION {{Chain(symbols) : symbols \in [1..n -> EstimateSymbols]} :
           n \in 0..MaxEstimateAtoms}
    \cup {TenElements, Malformed}

InitCall(inputs) ==
    /\ db = EmptyDatabase
    /\ now = 0
    /\ w = IdleWriter
    /\ r = IdleReader
    /\ last = NoOperation
    /\ d = IdleRun
    /\ f = NoFile
    /\ e \in inputs

InitEstimate ==
    InitCall({[pc |-> "ready", molecule_string |-> molecule_string,
               analysis |-> DefaultAnalysis] :
                  molecule_string \in EstimateStructures})

\* self._analyze_molecule_properties(molecule_string)
AnalyzeMoleculeProperties ==
    /\ e.pc = "ready"
    /\ e' = [e EXCEPT !.pc = "analyzed",
                      !.analysis = analyze_molecule_properties(e.molecule_string)]
    /\ UNCHANGED <<db, now, w, r, last, d, f>>

\* the caller drops the result
AnalyzeReturn ==
    /\ e.pc = "analyzed"
    /\ e' = [e EXCEPT !.pc = "returned"]
    /\ UNCHANGED <<db, now, w, r, last, d, f>>

NextEstimate == AnalyzeMoleculeProperties \/ AnalyzeReturn

SpecEstimate == InitEstimate /\ [][NextEstimate]_vars

\* C11: whatever the atom list, the estimator returns eight values, each in
\* [0, 1], and cost_effectiveness and environmental_safety are never below
\* their floor of 0.1.
C11_PropertiesInRange ==
    e.pc = "analyzed" =>
        /\ DOMAIN e.analysis.props = Properties
        /\ \A p \in Properties :
              /\ e.analysis.props[p] >= 0
              /\ e.analysis.props[p] <= 1000 * e.analysis.n
        /\ e.analysis.props["cost_effectiveness"] >= 100 * e.analysis.n
        /\ e.analysis.props["environmental_safety"] >= 100 * e.analysis.n

\* a structure of ten elements has been estimated: strength is below its
\* cap and both floored properties sit on their floor
C11_Witness ==
    /\ e.pc = "analyzed"
    /\ e.molecule_string = TenElements
    /\ e.analysis.n = 10
    /\ e.analysis.props["cost_effectiveness"] = 100 * e.analysis.n
    /\ e.analysis.props["environmental_safety"] = 100 * e.analysis.n

\* every property of the analysis equals 0.5
AllHalf(analysis) ==
    \A p \in Properties : 2 * analysis.props[p] = 1000 * analysis.n

\* C12: the estimator returns a vector for every input, text that does not
\* parse included, and for an empty atom list the vector in which all eight
\* properties are 0.5.
C12_TotalWithDefault ==
    e.pc = "analyzed" =>
        /\ DOMAIN e.analysis.props = Properties
        /\ e.analysis.n >= 1
        /\ (~parse_molecule_string(e.molecule_string).ok
              \/ parse_molecule_string(e.molecule_string).atoms = <<>>)
             => AllHalf(e.analysis)

\* the empty structure has been estimated
C12_Witness ==
    /\ e.pc = "analyzed"
    /\ e.molecule_string = EmptyString
    /\ AllHalf(e.analysis)

----------------------------------------------------------------------------
(* Properties of the design result                                         *)

\* a fitness [num, n] lies in [0, 1]
ScoreInUnitInterval(score) == score.num >= 0 /\ score.num <= 84 * 1000 * score.n

\* two fitness values are equal
ScoreEqual(a, b) == a.num * b.n = b.num * a.n

\* C13: with all eight target values in [0, 1], the fitness_score of every
\* design result lies in [0, 1] and equals the weighted fitness of the
\* re-estimated properties of the returned designed structure against the
\* target.
C13_FitnessOfDesigned ==
    (d.pc = "done" /\ \A p \in Properties : d.target[p] \in 0..10)
      => /\ ScoreInUnitInterval(Result(d).fitness_score)
         /\ ScoreEqual(Result(d).fitness_score,
                       calculate_fitness(Result(d).achieved_properties, d.target))

\* a run of at least two iterations has returned a designed structure that
\* is not the base, with the fitness of that structure
C13_Witness ==
    /\ d.pc = "done"
    /\ d.max_iterations >= 2
    /\ Result(d).designed_molecule # d.base
    /\ ScoreEqual(Result(d).fitness_score,
                  calculate_fitness(Result(d).achieved_properties, d.target))

----------------------------------------------------------------------------
(* SubAtomicDesigner.create_molecular_library                              *)

\* design_material(base_molecule, target, max_iterations=5)
LibraryIterations == 5

\* the pairs (i, j) in the order of the two nested loops; i and j from 0
LibraryPairs(b, t) ==
    [k \in 1..(b * t) |-> [i |-> (k - 1) \div t, j |-> (k - 1) % t]]

\* the run of pair (i, j)
LibraryRun(base_molecules, property_targets, pair) ==
    design_material(base_molecules[pair.i + 1], property_targets[pair.j + 1],
                    LibraryIterations)

\* ok = FALSE: an exception left the method (error names it)
create_molecular_library(base_molecules, property_targets) ==
    LET b == Len(base_molecules)
        t == Len(property_targets)
        pairs == LibraryPairs(b, t)
        runs == [k \in 1..(b * t) |->
                    LibraryRun(base_molecules, property_targets, pairs[k])]
        designed_materials ==
            [k \in 1..(b * t) |->
                [id |-> <<"material", pairs[k].i + 1, pairs[k].j + 1>>,
                 base_molecule_index |-> pairs[k].i,
                 target_index |-> pairs[k].j,
                 design_result |-> Result(runs[k])]]
        Raised(error) ==
            [ok |-> FALSE, error |-> error, base_molecules_count |-> b,
             target_variations |-> t, designed_materials |-> <<>>,
             total_designed |-> 0, success_rate |-> [num |-> 0, den |-> 1]]
    IN  IF \E k \in 1..(b * t) : runs[k].pc = "raised" THEN Raised("ParseError")
        ELSE IF b * t = 0 THEN Raised("ZeroDivisionError")
        ELSE [ok |-> TRUE, error |-> "", base_molecules_count |-> b,
              target_variations |-> t,
              designed_materials |-> designed_materials,
              total_designed |-> Len(designed_materials),
              success_rate |-> [num |-> Len(designed_materials), den |-> b * t]]

(* SpecLibrary: one call of create_molecular_library                       *)

LibraryBases == {ScenarioA, Chain(<<"C">>), Malformed}
LibraryTargets == {DefaultTarget, Mulch}

InitLibrary ==
    InitCall({[pc |-> "ready", base_molecules |-> base_molecules,
               property_targets |-> property_targets,
               library |-> create_molecular_library(<<>>, <<>>)] :
                  base_molecules \in SeqsUpTo(LibraryBases, MaxLibraryBases),
                  property_targets \in SeqsUpTo(LibraryTargets, MaxLibraryTargets)})

CreateMolecularLibrary ==
    /\ e.pc = "ready"
    /\ e' = [e EXCEPT !.pc = "created",
                      !.library = create_molecular_library(e.base_molecules,
                                                           e.property_targets)]
    /\ UNCHANGED <<db, now, w, r, last, d, f>>

\* the endpoint answers with the library, or with status 500
LibraryReturn ==
    /\ e.pc = "created"
    /\ e' = [e EXCEPT !.pc = "returned"]
    /\ UNCHANGED <<db, now, w, r, last, d, f>>

NextLibrary == CreateMolecularLibrary \/ LibraryReturn

SpecLibrary == InitLibrary /\ [][NextLibrary]_vars

\* every design of the call succeeds
AllDesignsSucceed(base_molecules, property_targets) ==
    \A i \in 1..Len(base_molecules), j \in 1..Len(property_targets) :
        design_material(base_molecules[i], property_targets[j],
                        LibraryIterations).pc # "raised"

\* C14: over b base structures and t targets whose designs all succeed,
\* create_molecular_library returns exactly b*t design results, one per
\* (base, target) pair in (base_index, target_index) order, each the result
\* of design on that pair, with success_rate the number of designs
\* succeeded over b*t.
C14_LibraryPerPair ==
    (e.pc = "created" /\ AllDesignsSucceed(e.base_molecules, e.property_targets))
      => LET b == Len(e.base_molecules)
             t == Len(e.property_targets)
             listed == e.library.designed_materials
         IN  /\ e.library.ok
             /\ Len(listed) = b * t
             /\ \A i \in 0..(b - 1), j \in 0..(t - 1) :
                   LET entry == listed[i * t + j + 1]
                   IN  /\ entry.base_molecule_index = i
                       /\ entry.target_index = j
                       /\ entry.design_result =
                            Result(design_material(e.base_molecules[i + 1],
                                       e.property_targets[j + 1],
                                       LibraryIterations))
             /\ e.library.success_rate.num = Len(listed)
             /\ e.library.success_rate.den = b * t

\* a library over two different bases and two different targets has been
\* returned with its four results
C14_Witness ==
    /\ e.pc = "created"
    /\ e.library.ok
    /\ Len(e.base_molecules) = 2 /\ e.base_molecules[1] # e.base_molecules[2]
    /\ Len(e.property_targets) = 2 /\ e.property_targets[1] # e.property_targets[2]
    /\ Len(e.library.designed_materials) = 4

----------------------------------------------------------------------------
(* C15: the collaborators of a design run                                  *)

\* the two invocations a finished run has made, in order, on a molecule
BothOnce(molecule_string) ==
    <<Call("run_molecule_simulation", molecule_string),
      Call("predict_material_properties", molecule_string)>>

\* what the loop alone computes from the arguments of the run
LoopOutcome(run) ==
    Result(design_material(run.base, run.target, run.max_iterations))

\* C15: in a design run the external simulation function and the
\* material-properties prediction are each invoked exactly once, after the
\* loop and never inside it; whatever they answer, success = false
\* included, the run is not aborted, and its designed structure, fitness
\* score and history are those the loop computed.
C15_CollaboratorsOnceAfterLoop ==
    /\ d.pc \in {"idle", "loop", "final", "raised"} => d.calls = <<>>
    /\ d.pc = "done"
         => /\ d.calls = BothOnce(d.best_molecule)
            /\ Result(d).success
            /\ Result(d).simulation_result \in SimulationResults
            /\ Result(d).material_properties \in MaterialResults
            /\ Result(d).designed_molecule = LoopOutcome(d).designed_molecule
            /\ Result(d).fitness_score = LoopOutcome(d).fitness_score
            /\ Result(d).design_history = LoopOutcome(d).design_history

\* a run that changed its structure has finished although both
\* collaborators reported success = false
C15_Witness ==
    /\ d.pc = "done"
    /\ Len(d.design_history) > 0
    /\ ~d.simulation_result.success
    /\ ~d.material_properties.success
    /\ Len(d.calls) = 2

----------------------------------------------------------------------------
(* SpecBonds: bonds are inferred for an atom list, once per stored copy    *)

BondSymbols == {"H", "C"}

\* positions in tenths of an Angstrom, (x, y) with z = 0: their distances
\* fall below 0.7, between 0.7 and 0.8, between 0.8 and 1, and above 1 of
\* the thresholds 1.0 (H-H), 1.8 (C-C) and 2.0 (C-H)
BondPositions ==
    {<<0, 0>>, <<6, 0>>, <<7, 0>>, <<13, 0>>, <<15, 0>>, <<19, 0>>, <<6, 8>>}

BondAtoms ==
    {Atom(symbol, p[1], p[2], 0) : symbol \in BondSymbols, p \in BondPositions}

InitBonds ==
    InitCall({[pc |-> "bonds", atom_data |-> atom_data, molecule_id |-> 0,
               bonds |-> <<>>] : atom_data \in SeqsUpTo(BondAtoms, MaxBondAtoms)})

\* self._calculate_and_store_bonds(cursor, molecule_id, atom_data) for the
\* next stored copy of the atom list
CalculateAndStoreBonds ==
    /\ e.pc = "bonds"
    /\ e.molecule_id < MaxInferences
    /\ e' = [e EXCEPT
               !.molecule_id = @ + 1,
               !.bonds = @ \o calculate_and_store_bonds(e.molecule_id + 1,
                                          e.atom_data, Len(e.bonds) + 1)]
    /\ UNCHANGED <<db, now, w, r, last, d, f>>

NextBonds == CalculateAndStoreBonds

SpecBonds == InitBonds /\ [][NextBonds]_vars

\* the bond rows stored for a molecule, in a table of molecular_bonds rows
BondsOf(rows, molecule_id) == {k \in 1..Len(rows) : rows[k][2] = molecule_id}

\* C16: every stored bond has atom1_index < atom2_index, both indices below
\* the atom count, and a molecule has at most one bond per unordered pair
\* of atoms.
C16_BondIndices ==
    e.pc = "bonds" =>
        /\ \A k \in 1..Len(e.bonds) :
              /\ 0 <= e.bonds[k][3]
              /\ e.bonds[k][3] < e.bonds[k][4]
              /\ e.bonds[k][4] < Len(e.atom_data)
        /\ \A k, l \in 1..Len(e.bonds) :
              ( /\ k # l
                /\ e.bonds[k][2] = e.bonds[l][2] )
              => {e.bonds[k][3], e.bonds[k][4]} # {e.bonds[l][3], e.bonds[l][4]}

\* three atoms within bonding distance of each other have their three bonds
C16_Witness ==
    /\ e.pc = "bonds"
    /\ Len(e.atom_data) = 3
    /\ Cardinality(BondsOf(e.bonds, 1)) = 3

\* the bonds of a molecule without the row id and the molecule id:
\* (atom1_index, atom2_index, bond_type, bond_order, bond_length)
BondSet(rows, molecule_id) ==
    {<<rows[k][3], rows[k][4], rows[k][5], rows[k][6], rows[k][7]>> :
        k \in BondsOf(rows, molecule_id)}

StatedBondType(distSq, threshold) ==
    IF 100 * distSq < 49 * threshold * threshold THEN "triple"
    ELSE IF 100 * distSq < 64 * threshold * threshold THEN "double"
    ELSE "single"

\* the rows stored for molecule 1 and the pair of atoms i < j (0-based)
PairBonds(i, j) ==
    {k \in BondsOf(e.bonds, 1) : e.bonds[k][3] = i /\ e.bonds[k][4] = j}

\* C20: for a pair of atoms at distance d with threshold T, no bond is
\* stored when d > T; when d <= T one bond is stored, triple of order 3 if
\* d < 0.7 T, double of order 2 if 0.7 T <= d < 0.8 T, single of order 1
\* otherwise.
C20_BondTypeByDistance ==
    (e.pc = "bonds" /\ e.molecule_id >= 1) =>
        \A i, j \in 0..(Len(e.atom_data) - 1) :
            i < j =>
              LET atom1 == e.atom_data[i + 1]
                  atom2 == e.atom_data[j + 1]
                  distSq == DistSq(atom1, atom2)
                  threshold == Threshold(atom1, atom2)
                  stated == StatedBondType(distSq, threshold)
              IN  IF distSq > threshold * threshold
                  THEN PairBonds(i, j) = {}
                  ELSE /\ Cardinality(PairBonds(i, j)) = 1
                       /\ \A k \in PairBonds(i, j) :
                             /\ e.bonds[k][5] = stated
                             /\ e.bonds[k][6] = BondOrder(stated)
                             /\ e.bonds[k][7] = distSq

\* bonds were inferred for two hydrogen atoms 0.6 Angstrom apart, which is
\* below 0.7 of their threshold of 1.0
C20_Witness ==
    /\ e.pc = "bonds"
    /\ e.molecule_id >= 1
    /\ e.atom_data = <<Atom("H", 0, 0, 0), Atom("H", 6, 0, 0)>>
    /\ Len(e.bonds) >= 1

----------------------------------------------------------------------------
(* SpecCache: simulations are cached for stored molecules while the clock  *)
(* advances, and get_molecule reads the latest one                         *)

\* CURRENT_TIMESTAMP moves on by a second
Tick ==
    /\ now < MaxClock
    /\ now' = now + 1
    /\ UNCHANGED <<db, w, r, last, d, f, e>>

\* a call of get_molecule whose caller keeps molecule['latest_simulation'];
\* simulation_results is the table the call read
GetLatestSimulation(molecule_id) ==
    \E simulation_data \in SelectLatestSimulation(db, molecule_id) :
      LET molecule == get_molecule(db, molecule_id, simulation_data)
      IN  /\ molecule.found
          /\ e' = [pc |-> "latest", molecule_id |-> molecule_id,
                   latest_simulation |-> molecule.latest_simulation,
                   simulation_results |-> db.simulation_results]
          /\ UNCHANGED <<db, now, w, r, last, d, f>>

NextCache ==
    \/ AddMolecule(<<"m1">>, ScenarioA, "general", <<>>)
    \/ Tick
    \/ \E molecule_id \in MoleculeIds, method \in Methods,
          result \in SimulationResults :
          RunAndCacheSimulation(molecule_id, method, result, MaxCachedRuns)
    \/ \E molecule_id \in MoleculeIds : GetLatestSimulation(molecule_id)

SpecCache == Init /\ [][NextCache]_vars

\* the ids of the simulation rows of a molecule; ids grow with each insert
SimulationIds(rows, molecule_id) ==
    {rows[k][1] : k \in {k \in 1..Len(rows) : rows[k][2] = molecule_id}}

\* the id of the row the most recent successful call wrote for a molecule
MostRecentId(rows, molecule_id) ==
    CHOOSE id \in SimulationIds(rows, molecule_id) :
        \A other \in SimulationIds(rows, molecule_id) : other <= id

IsPrefix(s, t) == Len(s) <= Len(t) /\ \A k \in 1..Len(s) : s[k] = t[k]

\* get_molecule returned the row of the most recent successful call
LatestIsMostRecent ==
    e.pc = "latest" =>
        IF SimulationIds(e.simulation_results, e.molecule_id) = {}
        THEN e.latest_simulation = <<>>
        ELSE /\ Len(e.latest_simulation) = 1
             /\ e.latest_simulation[1]["id"] =
                    MostRecentId(e.simulation_results, e.molecule_id)

\* earlier rows are kept, and a call that reports success = false adds none
AppendOnly ==
    /\ IsPrefix(db.simulation_results, db'.simulation_results)
    /\ (last'.op = "run_and_cache_simulation" /\ last'.outcome # "cached")
          => db'.simulation_results = db.simulation_results

\* C18: after any sequence of successful run_and_cache_simulation calls
\* the latest_simulation get_molecule returns is the entry the most recent
\* call wrote; earlier entries are kept (the table only grows); a call
\* whose simulation reports success = false adds no entry.
C18_LatestSimulation == [](LatestIsMostRecent) /\ [][AppendOnly]_vars

\* two simulations were cached for molecule 1 and get_molecule has
\* returned a latest_simulation for it
C18_Witness ==
    /\ e.pc = "latest"
    /\ e.molecule_id = 1
    /\ Cardinality(SimulationIds(e.simulation_results, 1)) = 2
    /\ Len(e.latest_simulation) = 1

----------------------------------------------------------------------------
(* MolecularDatabase.search_molecules                                      *)
(*                                                                         *)
(* Names, descriptions and queries are sequences of characters here. An    *)
(* optional argument is [supplied, value]; one that is not supplied is     *)
(* None.                                                                   *)

\* "if query:", "if category:", "if min_atoms:", "if max_atoms:": None and
\* the empty value of the type ('' or 0) both skip the filter
Applied(filter, empty) == filter.supplied /\ filter.value # empty

\* SQLite's LIKE compares ASCII letters without regard to case
Fold(c) == IF c = "A" THEN "a" ELSE IF c = "B" THEN "b" ELSE c

\* text LIKE pattern: % matches any run of characters, _ any one character
RECURSIVE Like(_, _)
Like(text, pattern) ==
    IF pattern = <<>> THEN text = <<>>
    ELSE IF Head(pattern) = "%"
    THEN \/ Like(text, Tail(pattern))
         \/ text # <<>> /\ Like(Tail(text), pattern)
    ELSE /\ text # <<>>
         /\ Head(pattern) = "_" \/ Fold(Head(pattern)) = Fold(Head(text))
         /\ Like(Tail(text), Tail(pattern))

\* the WHERE clause the code builds, on one row of molecules
SearchWhere(row, query, category, min_atoms, max_atoms) ==
    /\ Applied(query, <<>>)
          => \/ Like(row[2], <<"%">> \o query.value \o <<"%">>)
             \/ Like(row[13], <<"%">> \o query.value \o <<"%">>)
    /\ Applied(category, "") => row[12] = category.value
    /\ Applied(min_atoms, 0) => row[9] >= min_atoms.value
    /\ Applied(max_atoms, 0) => row[9] <= max_atoms.value

\* the sequences of the rows at the positions in found that
\* "ORDER BY created_at DESC" allows: rows with equal created_at come in
\* any order
OrderByCreatedAtDesc(rows, found) ==
    {[k \in 1..Cardinality(found) |-> rows[p[k]]] :
        p \in {p \in [1..Cardinality(found) -> found] :
                 /\ \A k, l \in 1..Cardinality(found) : k # l => p[k] # p[l]
                 /\ \A k, l \in 1..Cardinality(found) :
                       k < l => rows[p[k]][10] >= rows[p[l]][10]}}

\* the lists of dicts search_molecules may return on a snapshot
search_molecules(view, query, category, min_atoms, max_atoms) ==
    LET rows == view.molecules
        found == {k \in 1..Len(rows) :
                    SearchWhere(rows[k], query, category, min_atoms, max_atoms)}
    IN  {[k \in 1..Len(fetched) |-> Zip(molecules_columns, fetched[k])] :
            fetched \in OrderByCreatedAtDesc(rows, found)}

----------------------------------------------------------------------------
(* SpecSearch: molecules are stored while the clock advances, and the      *)
(* store is searched                                                       *)

Optional(values) ==
    {[supplied |-> FALSE, value |-> v] : v \in {CHOOSE v \in values : TRUE}}
    \cup {[supplied |-> TRUE, value |-> v] : v \in values}

SearchNames == {<<"a">>, <<"A", "b">>}
SearchDescriptions == {<<>>, <<"b">>}
SearchCategories == {"general", "polymer"}
SearchStrings == {EmptyString, ScenarioA}

Queries == Optional({<<>>, <<"a">>, <<"b">>, <<"_">>})
CategoryFilters == Optional({"", "general"})
AtomCounts == Optional({0, 1})

\* search_molecules_endpoint's call of search_molecules; molecules is the
\* table the call read, result the list it returned
SearchMolecules(query, category, min_atoms, max_atoms) ==
    /\ e.pc = "none"
    /\ \E result \in search_molecules(db, query, category, min_atoms, max_atoms) :
          e' = [pc |-> "searched", query |-> query, category |-> category,
                min_atoms |-> min_atoms, max_atoms |-> max_atoms,
                molecules |-> db.molecules, result |-> result]
    /\ UNCHANGED <<db, now, w, r, last, d, f>>

\* the caller drops the list
SearchReturn ==
    /\ e.pc = "searched"
    /\ e' = NoCall
    /\ UNCHANGED <<db, now, w, r, last, d, f>>

NextSearch ==
    \/ \E name \in SearchNames, molecule_string \in SearchStrings,
          category \in SearchCategories, description \in SearchDescriptions :
          /\ e.pc = "none"
          /\ AddMolecule(name, molecule_string, category, description)
    \/ e.pc = "none" /\ Tick
    \/ \E query \in Queries, category \in CategoryFilters,
          min_atoms \in AtomCounts, max_atoms \in AtomCounts :
          SearchMolecules(query, category, min_atoms, max_atoms)
    \/ SearchReturn

SpecSearch == Init /\ [][NextSearch]_vars

\* query occurs in text as a run of consecutive characters
Contains(text, query) ==
    \E i \in 0..(Len(text) - Len(query)) :
        \A k \in 1..Len(query) : text[i + k] = query[k]

\* a row satisfies every filter that was supplied
SatisfiesFilters(row, query, category, min_atoms, max_atoms) ==
    /\ query.supplied
          => Contains(row[2], query.value) \/ Contains(row[13], query.value)
    /\ category.supplied => row[12] = category.value
    /\ min_atoms.supplied => row[9] >= min_atoms.value
    /\ max_atoms.supplied => row[9] <= max_atoms.value

\* C19: search_molecules returns exactly the stored molecules that satisfy
\* every supplied filter (query contained in name or description, category
\* equal, atom count >= min_atoms, atom count <= max_atoms), for every
\* supplied filter value including 0, the most recently created first.
C19_SearchExact ==
    e.pc = "searched" =>
        /\ {e.result[k]["id"] : k \in 1..Len(e.result)} =
              {e.molecules[k][1] : k \in {k \in 1..Len(e.molecules) :
                  SatisfiesFilters(e.molecules[k], e.query, e.category,
                                   e.min_atoms, e.max_atoms)}}
        /\ \A k, l \in 1..Len(e.result) :
              k < l => e.result[k]["id"] > e.result[l]["id"]

\* a search with max_atoms = 0 over a store that holds a molecule of two
\* atoms and a molecule of none
C19_Witness ==
    /\ e.pc = "searched"
    /\ e.max_atoms = [supplied |-> TRUE, value |-> 0]
    /\ \E k, l \in 1..Len(e.molecules) :
          e.molecules[k][9] = 2 /\ e.molecules[l][9] = 0

----------------------------------------------------------------------------
(* C21: the threshold of a pair of elements                                *)

\* the table's value for two symbols in either order, the default for a
\* pair the table does not list: the lookup the claim C21 states
StatedThreshold(a, b) ==
    IF <<a, b>> \in DOMAIN bond_thresholds THEN bond_thresholds[<<a, b>>]
    ELSE IF <<b, a>> \in DOMAIN bond_thresholds THEN bond_thresholds[<<b, a>>]
    ELSE DefaultThreshold

\* C21: the bonding threshold of a pair of atoms is the table's value for
\* its two element symbols whatever the order of the two atoms, and the
\* default 2.0 only for pairs the table does not list: a pair is bonded
\* exactly when its distance is at most that threshold, and the bond is
\* classified against it (a C-H pair at distance 1.0 has one single bond
\* of order 1.0).
C21_SymmetricThreshold ==
    (e.pc = "bonds" /\ e.molecule_id >= 1) =>
        \A i, j \in 0..(Len(e.atom_data) - 1) :
            i < j =>
              LET atom1 == e.atom_data[i + 1]
                  atom2 == e.atom_data[j + 1]
                  distSq == DistSq(atom1, atom2)
                  threshold == StatedThreshold(atom1.symbol, atom2.symbol)
                  bond_type == BondType(distSq, threshold)
              IN  IF distSq > threshold * threshold
                  THEN PairBonds(i, j) = {}
                  ELSE /\ Cardinality(PairBonds(i, j)) = 1
                       /\ \A k \in PairBonds(i, j) :
                             /\ e.bonds[k][5] = bond_type
                             /\ e.bonds[k][6] = BondOrder(bond_type)

\* bonds were inferred for a carbon and a hydrogen atom 1.0 Angstrom apart
C21_Witness ==
    /\ e.pc = "bonds"
    /\ e.molecule_id >= 1
    /\ e.atom_data = <<Atom("C", 0, 0, 0), Atom("H", 6, 8, 0)>>
    /\ Len(e.bonds) >= 1

----------------------------------------------------------------------------
(* C22: what an applied modification does to the atom list                 *)

\* C22: for every entry of a design run's history, the structure after
\* that iteration has strictly more atoms than the structure before it,
\* whichever modification type was selected.
C22_ModificationAddsAtoms ==
    \A k \in 1..Len(d.design_history) :
        Len(d.design_history[k].molecule_string) > Len(Entering(d, k))

\* a run has recorded an entry for a modification of a type that
\* _apply_modification has no branch for
C22_Witness ==
    /\ d.pc \in {"loop", "final", "done"}
    /\ \E k \in 1..Len(d.design_history) :
          d.design_history[k].modification.type \in
              {"add_aromatic_ring", "add_amide_group", "add_uv_stabilizer",
               "add_hydrophobic_group"}

----------------------------------------------------------------------------
(* C23, C26: the returned structure against the structures of the run      *)

\* _calculate_fitness(_analyze_molecule_properties(s), target) of a run
FitnessOf(run, molecule_string) ==
    calculate_fitness(analyze_molecule_properties(molecule_string), run.target)

\* C23: the designed structure a run returns is the structure with the
\* highest fitness among all structures the run evaluated (the best, not
\* the last), and the returned fitness_score is that highest fitness.
C23_BestOfEvaluated ==
    d.pc = "done" =>
        /\ \A k \in 1..Len(d.evaluated) :
              ~ScoreGreater(FitnessOf(d, d.evaluated[k]), Result(d).fitness_score)
        /\ d.evaluated # <<>>
              => /\ \E k \in 1..Len(d.evaluated) :
                       Result(d).designed_molecule = d.evaluated[k]
                 /\ ScoreEqual(Result(d).fitness_score,
                               FitnessOf(d, Result(d).designed_molecule))

\* a finished run whose best structure is not the last one it evaluated
C23_Witness ==
    /\ d.pc = "done"
    /\ Len(d.evaluated) >= 2
    /\ Result(d).designed_molecule # d.evaluated[Len(d.evaluated)]
    /\ ScoreGreater(Result(d).fitness_score,
                    FitnessOf(d, d.evaluated[Len(d.evaluated)]))

\* C26: every structure an applied modification produced is scored before
\* the run returns, so the returned designed structure is never worse in
\* fitness than any structure the run produced, the one produced in the
\* last iteration when max_iterations is reached included.
C26_ProducedAreScored ==
    d.pc = "done" =>
        \A k \in 1..Len(d.design_history) :
            /\ \E j \in 1..Len(d.evaluated) :
                  d.evaluated[j] = d.design_history[k].molecule_string
            /\ ~ScoreGreater(FitnessOf(d, d.design_history[k].molecule_string),
                             FitnessOf(d, Result(d).designed_molecule))

\* a run has returned after applying a modification in each of its
\* max_iterations iterations
C26_Witness ==
    /\ d.pc = "done"
    /\ d.max_iterations >= 1
    /\ Len(d.design_history) = d.max_iterations

----------------------------------------------------------------------------
(* C24: the modification an iteration applies                              *)

\* the candidates iteration k of a run proposes
Candidates(run, k) ==
    LET molecule == Entering(run, k)
    IN  generate_modifications(molecule, analyze_molecule_properties(molecule),
                               run.target).modifications

\* the iterations a run has been through
IterationsEntered(run) ==
    1..(IF run.pc = "loop" THEN Len(run.design_history)
        ELSE Min(Len(run.design_history) + 1, run.max_iterations))

\* C24: in each iteration that proposes at least one candidate, exactly
\* one modification is applied and recorded in the history, and it is a
\* candidate whose expected_improvement is the maximum over all the
\* candidates that iteration proposed, across all properties.
C24_OneBestModification ==
    d.pc # "idle" =>
        /\ \A k \in IterationsEntered(d) :
              Candidates(d, k) # <<>> => k <= Len(d.design_history)
        /\ \A k \in 1..Len(d.design_history) :
              LET modifications == Candidates(d, k)
                  recorded == d.design_history[k]
              IN  /\ recorded.iteration = k
                  /\ \E i \in 1..Len(modifications) :
                        modifications[i] = recorded.modification
                  /\ \A i \in 1..Len(modifications) :
                        modifications[i].expected_improvement
                          <= recorded.modification.expected_improvement
                  /\ recorded.molecule_string =
                        apply_modification(Entering(d, k),
                                           recorded.modification).molecule_string

\* an iteration chose among candidates of more than one property, the
\* chosen one strictly ahead of another
C24_Witness ==
    /\ d.pc \in {"loop", "final", "done"}
    /\ \E k \in 1..Len(d.design_history) :
          \E i \in 1..Len(Candidates(d, k)) :
              /\ Len(Candidates(d, k)) >= 3
              /\ Candidates(d, k)[i].expected_improvement
                    < d.design_history[k].modification.expected_improvement

----------------------------------------------------------------------------
(* SpecModify: one modification is applied to one structure                *)

ModificationTypes ==
    {"add_aromatic_ring", "add_amide_group", "add_ester_linkage",
     "extend_chain", "add_hydroxyl_group", "add_carboxyl_group",
     "add_uv_stabilizer", "add_hydrophobic_group"}

ModifiedStructures == CarbonHydrogenBases \cup {Hydroxide, EmptyString}

InitModify ==
    InitCall({[pc |-> "modify", molecule_string |-> molecule_string,
               modification |-> Modification(type, target_atom, 0),
               applied |-> [ok |-> FALSE, molecule_string |-> <<>>]] :
                  molecule_string \in ModifiedStructures,
                  type \in ModificationTypes,
                  target_atom \in (-1)..MaxBaseAtoms})

\* self._apply_modification(molecule_string, modification)
ApplyModification ==
    /\ e.pc = "modify"
    /\ e' = [e EXCEPT !.pc = "modified",
                      !.applied = apply_modification(e.molecule_string,
                                                     e.modification)]
    /\ UNCHANGED <<db, now, w, r, last, d, f>>

\* the caller drops the string, or the IndexError has propagated
ModifyReturn ==
    /\ e.pc = "modified"
    /\ e' = [e EXCEPT !.pc = "returned"]
    /\ UNCHANGED <<db, now, w, r, last, d, f>>

NextModify == ApplyModification \/ ModifyReturn

SpecModify == InitModify /\ [][NextModify]_vars

\* add_carboxyl_group has been applied at an atom of the structure
CarboxylAtAnchor ==
    /\ e.pc = "modified"
    /\ e.modification.type = "add_carboxyl_group"
    /\ e.modification.target_atom >= 0
    /\ e.modification.target_atom < Len(e.molecule_string)

\* the atom list before the call, the one after it, and the anchor
AtomsBefore == parse_molecule_string(e.molecule_string).atoms
AtomsAfter == parse_molecule_string(e.applied.molecule_string).atoms
Anchor == AtomsBefore[e.modification.target_atom + 1]

\* C25 as stated: add_carboxyl_group on a structure with a valid anchor
\* atom appends exactly three atoms to the atom list, at fixed template
\* offsets from the anchor.
C25_CarboxylAppendsThree ==
    CarboxylAtAnchor =>
        /\ e.applied.ok
        /\ Len(AtomsAfter) = Len(AtomsBefore) + 3
        /\ SubSeq(AtomsAfter, 1, Len(AtomsBefore)) = AtomsBefore

\* C25: add_carboxyl_group on a structure with a valid anchor atom appends
\* exactly four atoms to the atom list, a carbon, two oxygens and a
\* hydrogen, at the fixed offsets (1.5, 0, 0), (1.5, 1.2, 0), (2.9, 0, 0)
\* and (3.9, 0, 0) from the anchor.
C25_CarboxylAppendsFour ==
    CarboxylAtAnchor =>
        /\ e.applied.ok
        /\ AtomsAfter = AtomsBefore \o
              <<Atom("C", Anchor.x + 15, Anchor.y, Anchor.z),
                Atom("O", Anchor.x + 15, Anchor.y + 12, Anchor.z),
                Atom("O", Anchor.x + 29, Anchor.y, Anchor.z),
                Atom("H", Anchor.x + 39, Anchor.y, Anchor.z)>>

\* add_carboxyl_group has been applied at the second atom of a structure
\* of three atoms
C25_Witness ==
    /\ CarboxylAtAnchor
    /\ Len(AtomsBefore) = 3
    /\ e.modification.target_atom = 1
    /\ Len(AtomsAfter) > 3

----------------------------------------------------------------------------
(* C27: design_sub_atomic_material on a stored base                        *)

\* the rows of molecules with a given id
MoleculeRows(tables, molecule_id) ==
    SelectSeq(tables.molecules, LAMBDA row : row[1] = molecule_id)

\* a call of design_sub_atomic_material on a stored base molecule with at
\* least one atom has just ended
DesignedFromStoredBase ==
    /\ last'.op = "design_sub_atomic_material"
    /\ MoleculeRows(db, last'.molecule_id) # <<>>
    /\ SelectAtoms(db, last'.molecule_id) # <<>>

\* C27: design_sub_atomic_material on a stored base molecule with at least
\* one atom completes and stores exactly one new molecule, of category
\* designed_material, with as many atoms as the base molecule.
C27_DesignStoresOne ==
    [][DesignedFromStoredBase =>
          /\ last'.outcome = "ok"
          /\ Len(db'.molecules) = Len(db.molecules) + 1
          /\ SubSeq(db'.molecules, 1, Len(db.molecules)) = db.molecules
          /\ LET new == db'.molecules[Len(db'.molecules)]
             IN  /\ new[1] = last'.new_id
                 /\ new[12] = "designed_material"
                 /\ Len(SelectAtoms(db', new[1])) =
                       Len(SelectAtoms(db, last'.molecule_id))]_vars

\* design_sub_atomic_material has been called on a stored molecule that
\* has atoms
C27_Witness ==
    /\ last.op = "design_sub_atomic_material"
    /\ MoleculeRows(db, last.molecule_id) # <<>>
    /\ SelectAtoms(db, last.molecule_id) # <<>>

----------------------------------------------------------------------------
(* SpecRepeat: design_material is called twice on the same arguments, the  *)
(* collaborators answering the same both times                             *)

InitRepeat ==
    InitCall({[pc |-> "first", base_molecule_string |-> base_molecule_string,
               target |-> target, max_iterations |-> max_iterations,
               simulation_result |-> simulation_result,
               material_properties |-> material_properties,
               returned |-> <<>>] :
                  base_molecule_string \in BaseStructures, target \in Targets,
                  max_iterations \in 0..MaxIterations,
                  simulation_result \in SimulationResults,
                  material_properties \in MaterialResults})

\* the next call of design_material on the arguments of e
RepeatStart ==
    /\ e.pc \in {"first", "second"}
    /\ DesignStart(e.base_molecule_string, e.target, e.max_iterations)

\* the collaborators answer as e says
RepeatFinish == DesignFinish(e.simulation_result, e.material_properties)

\* the call returns its dict, or its exception reaches the caller; the
\* caller keeps what it got
RepeatReturn ==
    /\ d.pc \in {"done", "raised"}
    /\ d' = IdleRun
    /\ e' = [e EXCEPT
               !.returned = Append(@, [raised |-> d.pc = "raised",
                                       result |-> Result(d)]),
               !.pc = IF e.pc = "first" THEN "second" ELSE "both"]
    /\ UNCHANGED <<db, now, w, r, last, f>>

NextRepeat == RepeatStart \/ DesignIterate \/ RepeatFinish \/ RepeatReturn

SpecRepeat == InitRepeat /\ [][NextRepeat]_vars

----------------------------------------------------------------------------
(* SpecUpload: molecule files and molecule strings are added one after     *)
(* another to one store                                                    *)

UploadNames == {<<"m1">>, <<"m2">>}

MethaneXyz ==
    <<<<Int10(2)>>, Comment, <<Sym("C"), Int10(0), Int10(0), Int10(0)>>,
      <<Sym("H"), Num(10), Int10(0), Int10(0)>>>>

CarbonMol ==
    MolHeader \o <<<<Int10(1), Int10(0)>>, <<Num(0), Num(0), Num(0), Sym("C")>>>>

UploadFiles ==
    {[pc |-> "ready", content |-> MethaneXyz, file_format |-> ".xyz",
      parsed |-> NoneResult],
     [pc |-> "ready", content |-> CarbonMol, file_format |-> ".mol",
      parsed |-> NoneResult],
     [pc |-> "ready", content |-> CarbonMol, file_format |-> ".sdf",
      parsed |-> NoneResult],
     [pc |-> "ready", content |-> ScenarioA, file_format |-> ".txt",
      parsed |-> NoneResult],
     [pc |-> "ready", content |-> <<>>, file_format |-> ".xyz",
      parsed |-> NoneResult]}

InitUpload ==
    /\ db = EmptyDatabase
    /\ now = 0
    /\ w = IdleWriter
    /\ r = IdleReader
    /\ last = NoOperation
    /\ d = IdleRun
    /\ f = NoFile
    /\ e = NoCall

\* one whole call of add_molecule_from_file on the store as it is
UploadMoleculeFile(file, name, category) ==
    LET added == add_molecule_from_file(db, file.content, file.file_format, name,
                                        category, <<>>, now)
    IN  /\ Len(db.molecules) < MaxMolecules
        /\ db' = added.db
        /\ last' = IF added.ok
                   THEN Completed("add_molecule_from_file", 0, "ok",
                                  added.molecule_id)
                   ELSE Completed("add_molecule_from_file", 0, added.error, 0)
        /\ f' = [file EXCEPT !.pc = "added"]
        /\ UNCHANGED <<now, w, r, d, e>>

NextUpload ==
    \/ \E file \in UploadFiles, name \in UploadNames, category \in Categories :
          UploadMoleculeFile(file, name, category)
    \/ \E name \in UploadNames, category \in Categories :
          AddMolecule(name, ScenarioA, category, <<>>)

SpecUpload == InitUpload /\ [][NextUpload]_vars

\* the file_hash column of the rows that came from a file
StoredHashes(tables) ==
    {tables.molecules[k][5] : k \in 1..Len(tables.molecules)} \ {<<>>}

UniqueHashes(tables) ==
    \A k, l \in 1..Len(tables.molecules) :
        (k < l /\ tables.molecules[k][5] # <<>>)
            => tables.molecules[k][5] # tables.molecules[l][5]

\* the step uploads a file whose content is that of a stored file
DuplicateUpload ==
    /\ last'.op = "add_molecule_from_file"
    /\ f'.pc = "added"
    /\ <<f'.content>> \in StoredHashes(db)

\* C29: file hashes are unique among the stored molecules: an upload of a
\* file whose content is identical to that of a file already stored ends
\* with an error and leaves the molecules, atoms and bonds as they were
C29_UniqueFileHashes ==
    [][/\ DuplicateUpload => (last'.outcome # "ok" /\ db' = db)
       /\ UniqueHashes(db')]_vars

\* a file was stored, and a second upload of the same content was rejected
C29_Witness ==
    /\ f.pc = "added"
    /\ <<f.content>> \in StoredHashes(db)
    /\ last.op = "add_molecule_from_file"
    /\ last.outcome = "IntegrityError"
    /\ Len(db.molecules) >= 1
    /\ Len(db.atomic_properties) >= 1

----------------------------------------------------------------------------
(* create_molecular_library on empty lists                                 *)

NoPairs(base_molecules, property_targets) ==
    Len(base_molecules) = 0 \/ Len(property_targets) = 0

\* C30: create_molecular_library returns a library report for every pair of
\* input lists (here: every pair none of whose designs raises), and for an
\* empty list of base structures or an empty list of targets the report
\* contains zero designed materials.
C30_LibraryForEveryPair ==
    (e.pc = "created" /\ AllDesignsSucceed(e.base_molecules, e.property_targets))
      => /\ e.library.ok
         /\ e.library.base_molecules_count = Len(e.base_molecules)
         /\ e.library.target_variations = Len(e.property_targets)
         /\ NoPairs(e.base_molecules, e.property_targets)
              => /\ e.library.designed_materials = <<>>
                 /\ e.library.total_designed = 0

\* a call with bases and no target has ended without a report
C30_Witness ==
    /\ e.pc = "created"
    /\ Len(e.base_molecules) >= 1
    /\ Len(e.property_targets) = 0
    /\ ~e.library.ok
    /\ e.library.error = "ZeroDivisionError"

\* with at least one base and one target whose
\* designs succeed, a report is returned
LibraryOfPairsReturns ==
    (/\ e.pc = "created"
     /\ ~NoPairs(e.base_molecules, e.property_targets)
     /\ AllDesignsSucceed(e.base_molecules, e.property_targets))
      => e.library.ok

====
